---- MODULE Spec2Model ----
(***************************************************************************)
(* Battery arbitrage backtester: the battery interval model                *)
(* (internal/model/battery.go), the simulation engine                      *)
(* (internal/backtest/engine.go), the schedule strategy                    *)
(* (internal/strategy/schedule.go) and the oracle strategy (the second     *)
(* half of internal/data/locations.go).                                    *)
(*                                                                         *)
(* float64 values are modelled as exact rationals <<n, d>> in lowest terms *)
(* with d > 0; the three non-finite floats are <<0,0>> (NaN), <<1,0>>      *)
(* (+Inf) and <<-1,0>> (-Inf).  Rounding of float64 arithmetic is not      *)
(* modelled: every operation is exact.                                     *)
(***************************************************************************)
EXTENDS Integers, Sequences, FiniteSets, TLC

VARIABLES
    pc,         \* position of the caller: "start", "battery", "fetched", "built", "done", ...
    batt,       \* *model.Battery: [Params, SOC], or NoBattery
    initialSOC, \* the initialSOC handed to NewBattery
    intervals,  \* []model.LMPInterval handed to NewOracleStrategy and Engine.Run
    strat,      \* strategy.Strategy: a ScheduleStrategy or an OracleStrategy, or NoStrategy
    result,     \* *backtest.Result returned by Engine.Run, or NoResult
    cfg,        \* the strategy configuration the strategy was built from
    err,        \* the error returned by the last call ("" = nil)
    lastCall,   \* arguments of the last direct Battery.ApplyDispatch call
    lastRes,    \* model.IntervalResult of the last direct Battery.ApplyDispatch call
    ncalls,     \* number of direct Battery.ApplyDispatch or Strategy.Decide calls made
    lastWindow, \* arguments and result of the last direct inWindow call
    lastCtx,    \* strategy.Context of the last direct Strategy.Decide call
    lastDecision, \* what the last direct Strategy.Decide call returned, or its panic
    request,    \* the request handed to an HTTP handler or the arguments of the CLI
    response,   \* the response the handler wrote, or the outcome of the CLI
    byLocation, \* map[string][]model.LMPInterval handed to RankByOracleProfit
    ranked,     \* []RankedPotential returned by RankByOracleProfit
    env,        \* the environment variables of the process, or NoEnv before it starts
    globalCache, \* *ResponseCache: [store, ttl], or NoCache
    mu,         \* ResponseCache.mu: the goroutine holding the write lock, and the readers
    now,        \* what time.Now() returns
    goroutines, \* per calling goroutine: its position and its local variables
    sweeper,    \* the goroutine running ResponseCache.cleanup: its position
    completed   \* history: per key, the latest completed Set not yet removed

\* the variables of direct calls of the strategy package
callVars == <<lastWindow, lastCtx, lastDecision>>

\* the variables of the HTTP handlers and the CLI
apiVars == <<request, response>>

\* the variables of the analysis package
rankVars == <<byLocation, ranked>>

\* the variables of the response cache and the Grid Status client
cacheVars == <<env, globalCache, mu, now, goroutines, sweeper, completed>>

vars == <<pc, batt, initialSOC, intervals, strat, cfg, result, err, lastCall, lastRes, ncalls,
          callVars, apiVars, rankVars, cacheVars>>

----------------------------------------------------------------------------
(* Bounds of the model *)

MaxIntervals == 2
MaxCalls == 3
MaxDayIntervals == 3
MaxVariations == 2

----------------------------------------------------------------------------
(* float64 as exact rationals *)

RECURSIVE GCD(_, _)
GCD(a, b) == IF b = 0 THEN a ELSE GCD(b, a % b)

IAbs(x) == IF x < 0 THEN -x ELSE x

\* the rational n/d (d # 0) in lowest terms with a positive denominator
R(n, d) ==
    LET g == GCD(IAbs(n), IAbs(d))
        s == IF d < 0 THEN -1 ELSE 1
    IN  <<(s * n) \div g, (s * d) \div g>>

I(n) == <<n, 1>>
Zero == <<0, 1>>
One == <<1, 1>>
NaN == <<0, 0>>
PosInf == <<1, 0>>
NegInf == <<-1, 0>>

IsNaN(x) == x = NaN
IsFinite(x) == x[2] # 0

\* IEEE comparisons: every comparison with NaN is false
FLt(a, b) ==
    IF IsNaN(a) \/ IsNaN(b) THEN FALSE
    ELSE IF IsFinite(a) /\ IsFinite(b) THEN a[1] * b[2] < b[1] * a[2]
    ELSE (a = NegInf /\ b # NegInf) \/ (b = PosInf /\ a # PosInf)
FGt(a, b) == FLt(b, a)
FLe(a, b) == ~IsNaN(a) /\ ~IsNaN(b) /\ ~FLt(b, a)
FGe(a, b) == FLe(b, a)

FNeg(a) == <<-a[1], a[2]>>
FAbs(a) == <<IAbs(a[1]), a[2]>>
FAdd(a, b) == R(a[1] * b[2] + b[1] * a[2], a[2] * b[2])
FSub(a, b) == R(a[1] * b[2] - b[1] * a[2], a[2] * b[2])
FMul(a, b) == R(a[1] * b[1], a[2] * b[2])
FDiv(a, b) == R(a[1] * b[2], a[2] * b[1])
FMin(a, b) == IF FLt(b, a) THEN b ELSE a
FMax(a, b) == IF FGt(b, a) THEN b ELSE a


\* a local variable of the code: F applied to the value x
Let(x, F(_)) == F(x)

\* a local variable of the code whose value x is computed before F is entered
LetNow(x, F(_)) == IF x = x THEN F(x) ELSE F(x)

----------------------------------------------------------------------------
(* internal/model/battery.go *)

\* a nil *Battery; every battery value carries the field nil
NoBattery == [nil |-> TRUE, SOC |-> Zero]

BatteryParams(cap, pow, ce, de, mn, mx, deg) ==
    [EnergyCapacityMWh |-> cap, PowerCapacityMW |-> pow,
     ChargeEfficiency |-> ce, DischargeEfficiency |-> de,
     MinSOC |-> mn, MaxSOC |-> mx, DegradationCostPerMWh |-> deg]

\* Battery.Validate: "" when the battery is valid, else the error
Validate(p, soc) ==
    IF FLe(p.EnergyCapacityMWh, Zero) THEN "EnergyCapacityMWh must be > 0"
    ELSE IF FLe(p.PowerCapacityMW, Zero) THEN "PowerCapacityMW must be > 0"
    ELSE IF FLe(p.ChargeEfficiency, Zero) \/ FGt(p.ChargeEfficiency, One)
        THEN "ChargeEfficiency must be in (0, 1]"
    ELSE IF FLe(p.DischargeEfficiency, Zero) \/ FGt(p.DischargeEfficiency, One)
        THEN "DischargeEfficiency must be in (0, 1]"
    ELSE IF FLt(p.MinSOC, Zero) \/ FGt(p.MinSOC, One) \/ FLt(p.MaxSOC, Zero)
            \/ FGt(p.MaxSOC, One) \/ FGt(p.MinSOC, p.MaxSOC)
        THEN "MinSOC/MaxSOC must satisfy 0<=MinSOC<=MaxSOC<=1"
    ELSE IF FLt(soc, p.MinSOC) \/ FGt(soc, p.MaxSOC)
        THEN "initial SOC must be within [MinSOC, MaxSOC]"
    ELSE IF FLt(p.DegradationCostPerMWh, Zero) THEN "DegradationCostPerMWh must be >= 0"
    ELSE ""

\* the zero value of model.IntervalResult
ZeroResult ==
    [PowerMW |-> Zero, EnergyToGridMWh |-> Zero, EnergyFromGridMWh |-> Zero,
     ThroughputMWh |-> Zero, SOCStart |-> Zero, SOCEnd |-> Zero, PNL |-> Zero]

\* ClipDispatch with the lower clamp returning the upper limit
ClipDispatchWrongSign(p, d) ==
    LET p1 == IF FGt(d, p.PowerCapacityMW) THEN p.PowerCapacityMW ELSE d
    IN  IF FLt(p1, FNeg(p.PowerCapacityMW)) THEN p.PowerCapacityMW ELSE p1

\* Battery.ClipDispatch: the power limit only
ClipDispatch(p, d) ==
    LET p1 == IF FGt(d, p.PowerCapacityMW) THEN p.PowerCapacityMW ELSE d
    IN  IF FLt(p1, FNeg(p.PowerCapacityMW)) THEN FNeg(p.PowerCapacityMW) ELSE p1

clamp01(x) == IF FLt(x, Zero) THEN Zero ELSE IF FGt(x, One) THEN One ELSE x

\* Battery.CalculateIntervalPnL
CalculateIntervalPnL(p, lmp, energyFromGridMWh, energyToGridMWh) ==
    LET revenue == FMul(lmp, energyToGridMWh)
        cost == FMul(lmp, energyFromGridMWh)
        degradation == FMul(p.DegradationCostPerMWh, FAdd(energyFromGridMWh, energyToGridMWh))
    IN  FSub(FSub(revenue, cost), degradation)

\* maxChargeEnergyFromGridMWh without the limit by SOC headroom
maxChargeNoSOCLimit(p, soc, durationHours) == FMul(p.PowerCapacityMW, durationHours)

maxChargeEnergyFromGridMWh(p, soc, durationHours) ==
    LET storableMWh == FMul(FSub(p.MaxSOC, soc), p.EnergyCapacityMWh)
        limitBySOC == FDiv(storableMWh, p.ChargeEfficiency)
        limitByPower == FMul(p.PowerCapacityMW, durationHours)
    IN  IF FLe(storableMWh, Zero) THEN Zero
        ELSE FMax(Zero, FMin(limitBySOC, limitByPower))

\* maxDischargeEnergyToGridMWh dividing by the discharge efficiency
maxDischargeWrongEff(p, soc, durationHours) ==
    LET withdrawableMWh == FMul(FSub(soc, p.MinSOC), p.EnergyCapacityMWh)
        limitBySOC == FDiv(withdrawableMWh, p.DischargeEfficiency)
        limitByPower == FMul(p.PowerCapacityMW, durationHours)
    IN  IF FLe(withdrawableMWh, Zero) THEN Zero
        ELSE FMax(Zero, FMin(limitBySOC, limitByPower))

maxDischargeEnergyToGridMWh(p, soc, durationHours) ==
    LET withdrawableMWh == FMul(FSub(soc, p.MinSOC), p.EnergyCapacityMWh)
        limitBySOC == FMul(withdrawableMWh, p.DischargeEfficiency)
        limitByPower == FMul(p.PowerCapacityMW, durationHours)
    IN  IF FLe(withdrawableMWh, Zero) THEN Zero
        ELSE FMax(Zero, FMin(limitBySOC, limitByPower))

\* the charging branch with the battery-side energy recorded as throughput
chargeStoredThroughput(p, soc, p0, durationHours, maxChargeMWhGrid) ==
    Let(FMul(FAbs(p0), durationHours), LAMBDA req0 :
    Let(FGt(req0, maxChargeMWhGrid), LAMBDA clip :
    Let(IF clip THEN maxChargeMWhGrid ELSE req0, LAMBDA reqFromGridMWh :
    Let(FMul(reqFromGridMWh, p.ChargeEfficiency), LAMBDA storedMWh :
        [PowerMW |-> IF clip THEN FNeg(FDiv(reqFromGridMWh, durationHours)) ELSE p0,
         EnergyFromGridMWh |-> reqFromGridMWh,
         EnergyToGridMWh |-> Zero,
         ThroughputMWh |-> storedMWh,
         SOC |-> clamp01(FDiv(FAdd(FMul(soc, p.EnergyCapacityMWh), storedMWh),
                              p.EnergyCapacityMWh))]))))

\* the charging branch of ApplyDispatch (p < 0): the fields of the result it
\* sets and the state of charge it leaves
charge(p, soc, p0, durationHours, maxChargeMWhGrid) ==
    Let(FMul(FAbs(p0), durationHours), LAMBDA req0 :
    Let(FGt(req0, maxChargeMWhGrid), LAMBDA clip :
    Let(IF clip THEN maxChargeMWhGrid ELSE req0, LAMBDA reqFromGridMWh :
    Let(FMul(reqFromGridMWh, p.ChargeEfficiency), LAMBDA storedMWh :
        [PowerMW |-> IF clip THEN FNeg(FDiv(reqFromGridMWh, durationHours)) ELSE p0,
         EnergyFromGridMWh |-> reqFromGridMWh,
         EnergyToGridMWh |-> Zero,
         ThroughputMWh |-> reqFromGridMWh,
         SOC |-> clamp01(FDiv(FAdd(FMul(soc, p.EnergyCapacityMWh), storedMWh),
                              p.EnergyCapacityMWh))]))))

\* the discharging branch of ApplyDispatch (p > 0)
discharge(p, soc, p0, durationHours, maxDischargeMWhGrid) ==
    Let(FMul(p0, durationHours), LAMBDA req0 :
    Let(FGt(req0, maxDischargeMWhGrid), LAMBDA clip :
    Let(IF clip THEN maxDischargeMWhGrid ELSE req0, LAMBDA reqToGridMWh :
    Let(FDiv(reqToGridMWh, p.DischargeEfficiency), LAMBDA withdrawnMWh :
        [PowerMW |-> IF clip THEN FDiv(reqToGridMWh, durationHours) ELSE p0,
         EnergyFromGridMWh |-> Zero,
         EnergyToGridMWh |-> reqToGridMWh,
         ThroughputMWh |-> reqToGridMWh,
         SOC |-> clamp01(FDiv(FSub(FMul(soc, p.EnergyCapacityMWh), withdrawnMWh),
                              p.EnergyCapacityMWh))]))))

\* the last branch of ApplyDispatch (p neither < 0 nor > 0: zero, or NaN)
idle(soc) ==
    [PowerMW |-> Zero, EnergyFromGridMWh |-> Zero, EnergyToGridMWh |-> Zero,
     ThroughputMWh |-> Zero, SOC |-> soc]

\* Battery.ApplyDispatch on a battery with parameters p at state of charge soc:
\* [err, res, soc] with soc the battery's state of charge after the call
ApplyDispatch(p, soc, lmp, d, durationHours) ==
    IF FLe(durationHours, Zero)
    THEN [err |-> "durationHours must be > 0", res |-> ZeroResult, soc |-> soc]
    ELSE
    Let(ClipDispatch(p, d), LAMBDA p0 :
    Let(IF FLt(p0, Zero)
            THEN charge(p, soc, p0, durationHours,
                        maxChargeEnergyFromGridMWh(p, soc, durationHours))
        ELSE IF FGt(p0, Zero)
            THEN discharge(p, soc, p0, durationHours,
                           maxDischargeEnergyToGridMWh(p, soc, durationHours))
        ELSE idle(soc), LAMBDA r :
        [err |-> "",
         res |-> [PowerMW |-> r.PowerMW,
                  EnergyToGridMWh |-> r.EnergyToGridMWh,
                  EnergyFromGridMWh |-> r.EnergyFromGridMWh,
                  ThroughputMWh |-> r.ThroughputMWh,
                  SOCStart |-> soc,
                  SOCEnd |-> r.SOC,
                  PNL |-> CalculateIntervalPnL(p, lmp, r.EnergyFromGridMWh,
                                               r.EnergyToGridMWh)],
         soc |-> r.SOC]))

----------------------------------------------------------------------------
(* internal/model/action.go, internal/model/marketdata.go *)

ActionFromPowerMW(powerMW) ==
    IF FLt(powerMW, Zero) THEN "CHARGING"
    ELSE IF FGt(powerMW, Zero) THEN "DISCHARGING"
    ELSE "IDLE"

\* times are minutes; ZeroTime is the zero time.Time
ZeroTime == 0
MinutesPerHour == 60
MinutesPerDay == 1440

\* LMPInterval.Duration, in minutes
Duration(i) ==
    IF i.IntervalEndUTC # ZeroTime /\ i.IntervalStartUTC # ZeroTime
    THEN i.IntervalEndUTC - i.IntervalStartUTC
    ELSE i.IntervalEndLocal - i.IntervalStartLocal

DurationHours(i) == R(Duration(i), MinutesPerHour)

\* time.Time.Hour, Minute and the local calendar day of a local time
Hour(t) == (t % MinutesPerDay) \div MinutesPerHour
Minute(t) == t % MinutesPerHour
DayOf(t) == t \div MinutesPerDay

----------------------------------------------------------------------------
(* internal/strategy/schedule.go; a string is a sequence of characters *)

DigitChars == <<"0", "1", "2", "3", "4", "5", "6", "7", "8", "9">>
IsDigit(c) == \E k \in 1..10 : DigitChars[k] = c
DigitVal(c) == (CHOOSE k \in 1..10 : DigitChars[k] = c) - 1

RECURSIVE TrimLeft(_)
TrimLeft(s) == IF s # <<>> /\ Head(s) = " " THEN TrimLeft(Tail(s)) ELSE s
RECURSIVE TrimRight(_)
TrimRight(s) ==
    IF s # <<>> /\ s[Len(s)] = " " THEN TrimRight(SubSeq(s, 1, Len(s) - 1)) ELSE s
TrimSpace(s) == TrimRight(TrimLeft(s))

\* strings.Split(s, ":")
RECURSIVE Split(_, _)
Split(s, cur) ==
    IF s = <<>> THEN <<cur>>
    ELSE IF Head(s) = ":" THEN <<cur>> \o Split(Tail(s), <<>>)
    ELSE Split(Tail(s), Append(cur, Head(s)))

RECURSIVE ScanDigits(_, _, _)
ScanDigits(s, acc, n) ==
    IF s # <<>> /\ IsDigit(Head(s))
    THEN ScanDigits(Tail(s), acc * 10 + DigitVal(Head(s)), n + 1)
    ELSE [val |-> acc, n |-> n]

\* fmt.Sscanf(s, "%d", &v): leading space skipped, an optional sign, at least
\* one digit; what follows the digits is left unread
Sscanf(s) ==
    Let(TrimLeft(s), LAMBDA t :
    Let(t # <<>> /\ Head(t) \in {"+", "-"}, LAMBDA signed :
    Let(ScanDigits(IF signed THEN Tail(t) ELSE t, 0, 0), LAMBDA num :
        IF num.n = 0 THEN [ok |-> FALSE, val |-> 0]
        ELSE [ok |-> TRUE,
              val |-> IF signed /\ Head(t) = "-" THEN -num.val ELSE num.val])))

parseHHMM(str) ==
    Let(Split(TrimSpace(str), <<>>), LAMBDA parts :
        IF Len(parts) # 2 THEN [ok |-> FALSE, mins |-> 0]
        ELSE
        Let(Sscanf(parts[1]), LAMBDA h :
        Let(Sscanf(parts[2]), LAMBDA m :
            IF ~h.ok THEN [ok |-> FALSE, mins |-> 0]
            ELSE IF ~m.ok THEN [ok |-> FALSE, mins |-> 0]
            ELSE IF h.val < 0 \/ h.val > 23 \/ m.val < 0 \/ m.val > 59
                THEN [ok |-> FALSE, mins |-> 0]
            ELSE [ok |-> TRUE, mins |-> h.val * 60 + m.val])))

\* inWindow with the end of a same-day window included
inWindowClosed(tMins, start, end) ==
    IF start = end THEN FALSE
    ELSE IF start < end THEN tMins >= start /\ tMins <= end
    ELSE tMins >= start \/ tMins < end

inWindow(tMins, start, end) ==
    IF start = end THEN FALSE
    ELSE IF start < end THEN tMins >= start /\ tMins < end
    ELSE tMins >= start \/ tMins < end

NoStrategy == [name |-> "nil"]

\* &strategy.ScheduleStrategy{Params: params}
ScheduleStrategy(params) ==
    [name |-> "schedule", Params |-> params, initialized |-> FALSE,
     csMins |-> 0, ceMins |-> 0, dsMins |-> 0, deMins |-> 0]

\* the first call's initialisation in ScheduleStrategy.Decide: [panic, s]
initialize(s) ==
    Let(parseHHMM(s.Params.ChargeStart), LAMBDA cs :
    Let(parseHHMM(s.Params.DischargeStart), LAMBDA ds :
    Let(IF TrimSpace(s.Params.ChargeEnd) # <<>> THEN parseHHMM(s.Params.ChargeEnd) ELSE ds,
        LAMBDA ce :
    Let(IF TrimSpace(s.Params.DischargeEnd) # <<>> THEN parseHHMM(s.Params.DischargeEnd) ELSE ds,
        LAMBDA de :
        IF ~cs.ok \/ ~ds.ok \/ ~ce.ok \/ ~de.ok THEN [panic |-> TRUE, s |-> s]
        ELSE [panic |-> FALSE,
              s |-> [s EXCEPT !.csMins = cs.mins, !.ceMins = ce.mins, !.dsMins = ds.mins,
                              !.deMins = de.mins, !.initialized = TRUE]]))))

\* ScheduleStrategy.Decide with the discharge window tested first
ScheduleDecideDischargeFirst(s, ctx) ==
    Let(IF s.initialized THEN [panic |-> FALSE, s |-> s] ELSE initialize(s), LAMBDA i :
        IF i.panic THEN [panic |-> TRUE, d |-> Zero, s |-> s]
        ELSE
        Let(Hour(ctx.Interval.IntervalStartLocal) * 60
            + Minute(ctx.Interval.IntervalStartLocal), LAMBDA mins :
            [panic |-> FALSE,
             s |-> i.s,
             d |-> IF inWindow(mins, i.s.dsMins, i.s.deMins)
                       THEN FAbs(s.Params.DischargePowerMW)
                   ELSE IF inWindow(mins, i.s.csMins, i.s.ceMins)
                       THEN FNeg(FAbs(s.Params.ChargePowerMW))
                   ELSE Zero]))

\* ScheduleStrategy.Decide: [panic, d, s] with s the strategy after the call
ScheduleDecide(s, ctx) ==
    Let(IF s.initialized THEN [panic |-> FALSE, s |-> s] ELSE initialize(s), LAMBDA i :
        IF i.panic THEN [panic |-> TRUE, d |-> Zero, s |-> s]
        ELSE
        Let(Hour(ctx.Interval.IntervalStartLocal) * 60
            + Minute(ctx.Interval.IntervalStartLocal), LAMBDA mins :
            [panic |-> FALSE,
             s |-> i.s,
             d |-> IF inWindow(mins, i.s.csMins, i.s.ceMins)
                       THEN FNeg(FAbs(s.Params.ChargePowerMW))
                   ELSE IF inWindow(mins, i.s.dsMins, i.s.deMins)
                       THEN FAbs(s.Params.DischargePowerMW)
                   ELSE Zero]))

----------------------------------------------------------------------------
(* the oracle strategy, internal/data/locations.go lines 70-402 *)

DefaultSocSteps == 200
DefaultPowerSteps == 10
MinSocSteps == 2

\* math.Round of a finite value: half away from zero
Round(x) ==
    IF x[1] >= 0 THEN (2 * x[1] + x[2]) \div (2 * x[2])
    ELSE -((2 * (-x[1]) + x[2]) \div (2 * x[2]))

socToIdx(p, socSteps, soc) ==
    IF FLe(soc, p.MinSOC) THEN 0
    ELSE IF FGe(soc, p.MaxSOC) THEN socSteps
    ELSE Round(FMul(FDiv(FSub(soc, p.MinSOC), FSub(p.MaxSOC, p.MinSOC)), I(socSteps)))

idxToSoc(p, socSteps, idx) ==
    IF idx <= 0 THEN p.MinSOC
    ELSE IF idx >= socSteps THEN p.MaxSOC
    ELSE FAdd(p.MinSOC, FMul(R(idx, socSteps), FSub(p.MaxSOC, p.MinSOC)))

\* the charging branch of simulateInterval: [nextSOC, power, from, to]
simulateCharge(soc, power0, dtH, p, limitByPower) ==
    Let(FMul(FAbs(power0), dtH), LAMBDA req0 :
    Let(FMul(FSub(p.MaxSOC, soc), p.EnergyCapacityMWh), LAMBDA st :
    Let(FMin(FDiv(IF FLt(st, Zero) THEN Zero ELSE st, p.ChargeEfficiency), limitByPower),
        LAMBDA maxFromGrid :
    Let(FGt(req0, maxFromGrid) /\ FGt(dtH, Zero), LAMBDA clip :
    Let(IF clip THEN maxFromGrid ELSE req0, LAMBDA reqFromGrid :
        [nextSOC |-> FAdd(soc, FDiv(FMul(reqFromGrid, p.ChargeEfficiency),
                                    p.EnergyCapacityMWh)),
         power |-> IF clip THEN FNeg(FDiv(reqFromGrid, dtH)) ELSE power0,
         from |-> reqFromGrid, to |-> Zero])))))

\* the discharging branch of simulateInterval
simulateDischarge(soc, power0, dtH, p, limitByPower) ==
    Let(FMul(power0, dtH), LAMBDA req0 :
    Let(FMul(FSub(soc, p.MinSOC), p.EnergyCapacityMWh), LAMBDA wd :
    Let(FMin(FMul(IF FLt(wd, Zero) THEN Zero ELSE wd, p.DischargeEfficiency), limitByPower),
        LAMBDA maxToGrid :
    Let(FGt(req0, maxToGrid) /\ FGt(dtH, Zero), LAMBDA clip :
    Let(IF clip THEN maxToGrid ELSE req0, LAMBDA reqToGrid :
        [nextSOC |-> FSub(soc, FDiv(FDiv(reqToGrid, p.DischargeEfficiency),
                                    p.EnergyCapacityMWh)),
         power |-> IF clip THEN FDiv(reqToGrid, dtH) ELSE power0,
         from |-> Zero, to |-> reqToGrid])))))

\* simulateInterval: [nextSOC, power, pnl]
simulateInterval(soc, desiredPower, lmp, dtH, p) ==
    Let(IF FGt(desiredPower, p.PowerCapacityMW) THEN p.PowerCapacityMW ELSE desiredPower,
        LAMBDA p1 :
    Let(IF FLt(p1, FNeg(p.PowerCapacityMW)) THEN FNeg(p.PowerCapacityMW) ELSE p1,
        LAMBDA power0 :
    Let(IF FLt(power0, Zero)
            THEN simulateCharge(soc, power0, dtH, p, FMul(p.PowerCapacityMW, dtH))
        ELSE IF FGt(power0, Zero)
            THEN simulateDischarge(soc, power0, dtH, p, FMul(p.PowerCapacityMW, dtH))
        ELSE [nextSOC |-> soc, power |-> power0, from |-> Zero, to |-> Zero], LAMBDA r :
    Let(IF FLt(r.nextSOC, p.MinSOC) THEN p.MinSOC ELSE r.nextSOC, LAMBDA n1 :
        [nextSOC |-> IF FGt(n1, p.MaxSOC) THEN p.MaxSOC ELSE n1,
         power |-> r.power,
         pnl |-> FSub(FSub(FMul(lmp, r.to), FMul(lmp, r.from)),
                      FMul(p.DegradationCostPerMWh, FAdd(r.from, r.to)))]))))

\* the function f with every value computed once, when the function is built
Tabulated(f) == f @@ <<>>

\* the largest of a non-empty set of finite values
MaxOf(S) == CHOOSE x \in S : \A y \in S : FLe(y, x)

\* one action from one state (lines 269-271): [ns, power, v]
Transition(v0, soc, desiredPower, it, p, socSteps) ==
    Let(simulateInterval(soc, desiredPower, it.LMP, DurationHours(it), p), LAMBDA r :
        [ns |-> socToIdx(p, socSteps, r.nextSOC), power |-> r.power, v |-> FAdd(v0, r.pnl)])

\* the loop over the actions from one reachable state (lines 264-287): row[k] is
\* the outcome of action k; a later action replaces the best only when strictly better
RECURSIVE BestAction(_, _, _, _)
BestAction(row, k, powerSteps, best) ==
    IF k > powerSteps THEN best
    ELSE BestAction(row, k + 1, powerSteps,
                    IF FGt(row[k].v, best.v) THEN row[k] ELSE best)

\* next[ns] after the loops over states and actions (lines 272-274): the largest
\* value of a transition into ns, negInf when there is none
NextValue(tab, reach, Ks, ns) ==
    Let({tab[x[1]][x[2]].v : x \in {y \in reach \X Ks : tab[y[1]][y[2]].ns = ns}},
        LAMBDA into : IF into = {} THEN NegInf ELSE MaxOf(into))

\* one interval of the forward pass (lines 247-292): [next, choice, powerChosen].
\* negInf (-1e100) is modelled as -Inf: no finite value of the model reaches -5e99
DPStep(dp, it, p, socSteps, powerSteps) ==
    Let(FDiv(p.PowerCapacityMW, I(powerSteps)), LAMBDA step :
    Let({s \in 0..socSteps : dp[s] # NegInf}, LAMBDA reach :
    Let(Tabulated([s \in reach |-> Tabulated([k \in (-powerSteps)..powerSteps |->
            Transition(dp[s], idxToSoc(p, socSteps, s), FMul(I(k), step),
                       it, p, socSteps)])]), LAMBDA tab :
    Let(Tabulated([s \in reach |->
            BestAction(tab[s], -powerSteps, powerSteps,
                       [ns |-> s, power |-> Zero, v |-> dp[s]])]), LAMBDA best :
        [next |-> Tabulated([ns \in 0..socSteps |->
                      NextValue(tab, reach, (-powerSteps)..powerSteps, ns)]),
         choice |-> Tabulated([s \in 0..socSteps |->
                        IF s \in reach THEN best[s].ns ELSE -1]),
         powerChosen |-> Tabulated([s \in 0..socSteps |->
                             IF s \in reach THEN best[s].power ELSE Zero])]))))

\* the forward pass over intervals t..: [err, dp, choice, powerChosen]
RECURSIVE DPForward(_, _, _, _, _, _, _, _)
DPForward(ivs, p, socSteps, powerSteps, t, dp, choice, powerChosen) ==
    IF t > Len(ivs) THEN [err |-> "", dp |-> dp, choice |-> choice, powerChosen |-> powerChosen]
    ELSE IF FLe(DurationHours(ivs[t]), Zero)
        THEN [err |-> "non-positive dt", dp |-> dp, choice |-> choice,
              powerChosen |-> powerChosen]
    ELSE LetNow(DPStep(dp, ivs[t], p, socSteps, powerSteps), LAMBDA st :
             DPForward(ivs, p, socSteps, powerSteps, t + 1, st.next,
                       Append(choice, st.choice), Append(powerChosen, st.powerChosen)))

\* the forward reconstruction (lines 316-330)
RECURSIVE Reconstruct(_, _, _, _, _)
Reconstruct(choice, powerChosen, t, cur, plan) ==
    IF t > Len(choice) THEN plan
    ELSE IF choice[t][cur] < 0
        THEN Reconstruct(choice, powerChosen, t + 1, cur, Append(plan, Zero))
    ELSE Reconstruct(choice, powerChosen, t + 1, choice[t][cur],
                     Append(plan, powerChosen[t][cur]))

\* optimizeDP: [err, plan, dp] with dp the final dp array
optimizeDP(ivs, p, initSOC, socSteps0, powerSteps) ==
    Let(IF socSteps0 < MinSocSteps THEN MinSocSteps ELSE socSteps0, LAMBDA socSteps :
    Let(socToIdx(p, socSteps, initSOC), LAMBDA initIdx :
    Let(DPForward(ivs, p, socSteps, powerSteps, 1,
                  Tabulated([s \in 0..socSteps |-> IF s = initIdx THEN Zero ELSE NegInf]),
                  <<>>, <<>>), LAMBDA f :
        IF f.err # "" THEN [err |-> f.err, plan |-> <<>>, dp |-> f.dp]
        ELSE [err |-> "", dp |-> f.dp,
              plan |-> Reconstruct(f.choice, f.powerChosen, 1, initIdx, <<>>)])))

\* the loop of optimizeDPByDay over intervals i.. and what follows it (lines 145-180)
RECURSIVE ByDayLoop(_, _, _, _, _, _, _, _, _)
ByDayLoop(ivs, p, initSOC, socSteps, powerSteps, i, dayIntervals, fullPlan, currentDay) ==
    IF i > Len(ivs)
    THEN IF Len(dayIntervals) > 0
         THEN Let(optimizeDP(dayIntervals, p, initSOC, socSteps, powerSteps), LAMBDA d :
                  IF d.err # "" THEN [err |-> "error optimizing day", plan |-> <<>>]
                  ELSE [err |-> "", plan |-> fullPlan \o d.plan])
         ELSE [err |-> "", plan |-> fullPlan]
    ELSE
    Let(DayOf(ivs[i].IntervalStartLocal), LAMBDA intervalDay :
        IF i > 1 /\ intervalDay # currentDay
        THEN Let(optimizeDP(dayIntervals, p, initSOC, socSteps, powerSteps), LAMBDA d :
                 IF d.err # "" THEN [err |-> "error optimizing day", plan |-> <<>>]
                 ELSE ByDayLoop(ivs, p, initSOC, socSteps, powerSteps, i + 1,
                                <<ivs[i]>>, fullPlan \o d.plan, intervalDay))
        ELSE ByDayLoop(ivs, p, initSOC, socSteps, powerSteps, i + 1,
                       Append(dayIntervals, ivs[i]), fullPlan,
                       IF Len(dayIntervals) = 0 THEN intervalDay ELSE currentDay))

\* one optimization over the whole series, the days not told apart
optimizeDPWholeSeries(ivs, p, initSOC, socSteps, powerSteps) ==
    IF Len(ivs) = 0 THEN [err |-> "no intervals", plan |-> <<>>]
    ELSE Let(optimizeDP(ivs, p, initSOC, socSteps, powerSteps), LAMBDA d :
             [err |-> d.err, plan |-> d.plan])

optimizeDPByDay(ivs, p, initSOC, socSteps, powerSteps) ==
    IF Len(ivs) = 0 THEN [err |-> "no intervals", plan |-> <<>>]
    ELSE Let(ByDayLoop(ivs, p, initSOC, socSteps, powerSteps, 1, <<>>, <<>>, ZeroTime),
             LAMBDA r :
             IF r.err # "" THEN r
             ELSE IF Len(r.plan) # Len(ivs)
                 THEN [err |-> "plan length does not match intervals length", plan |-> <<>>]
             ELSE r)

\* NewOracleStrategy: [err, s]
NewOracleStrategy(ivs, p, initSOC, ocfg) ==
    IF Len(ivs) = 0 THEN [err |-> "no intervals", s |-> NoStrategy]
    ELSE
    Let(optimizeDPByDay(ivs, p, initSOC,
                        IF ocfg.SocSteps <= 0 THEN DefaultSocSteps ELSE ocfg.SocSteps,
                        IF ocfg.PowerSteps <= 0 THEN DefaultPowerSteps ELSE ocfg.PowerSteps),
        LAMBDA r :
        IF r.err # "" THEN [err |-> r.err, s |-> NoStrategy]
        ELSE [err |-> "", s |-> [name |-> "oracle", plan |-> r.plan]])

\* OracleStrategy.Decide reading the plan one place further on
OracleDecideOffByOne(s, ctx) ==
    IF ctx.Index < 0 \/ ctx.Index + 1 >= Len(s.plan)
    THEN [panic |-> FALSE, d |-> Zero, s |-> s]
    ELSE [panic |-> FALSE, d |-> s.plan[ctx.Index + 2], s |-> s]

\* OracleStrategy.Decide; ctx.Index counts from 0
OracleDecide(s, ctx) ==
    IF ctx.Index < 0 \/ ctx.Index >= Len(s.plan)
    THEN [panic |-> FALSE, d |-> Zero, s |-> s]
    ELSE [panic |-> FALSE, d |-> s.plan[ctx.Index + 1], s |-> s]

\* Strategy.Decide, dispatched on the dynamic type
Decide(s, ctx) == IF s.name = "oracle" THEN OracleDecide(s, ctx) ELSE ScheduleDecide(s, ctx)

----------------------------------------------------------------------------
(* internal/backtest/engine.go *)

\* a nil *Result
NoResult == [nil |-> TRUE]

\* cum += res.PNL, with the interval's PnL replacing the running total
AccumulateOverwrite(cum, pnl) == pnl

\* cum += res.PNL
Accumulate(cum, pnl) == FAdd(cum, pnl)

\* the LedgerRow with soc_start copied from the result's SOCEnd
LedgerRowStartFromEnd(index, it, req, res, cum) ==
    [Index |-> index,
     IntervalStartLocal |-> it.IntervalStartLocal,
     IntervalEndLocal |-> it.IntervalEndLocal,
     IntervalStartUTC |-> it.IntervalStartUTC,
     IntervalEndUTC |-> it.IntervalEndUTC,
     LMP |-> it.LMP,
     Action |-> ActionFromPowerMW(res.PowerMW),
     RequestedPowerMW |-> req,
     PowerMW |-> res.PowerMW,
     EnergyFromGridMWh |-> res.EnergyFromGridMWh,
     EnergyToGridMWh |-> res.EnergyToGridMWh,
     ThroughputMWh |-> res.ThroughputMWh,
     SOCStart |-> res.SOCEnd,
     SOCEnd |-> res.SOCEnd,
     PNL |-> res.PNL,
     CumPNL |-> cum]

\* the LedgerRow of interval it (lines 43-68); Index counts from 0
LedgerRow(index, it, req, res, cum) ==
    [Index |-> index,
     IntervalStartLocal |-> it.IntervalStartLocal,
     IntervalEndLocal |-> it.IntervalEndLocal,
     IntervalStartUTC |-> it.IntervalStartUTC,
     IntervalEndUTC |-> it.IntervalEndUTC,
     LMP |-> it.LMP,
     Action |-> ActionFromPowerMW(res.PowerMW),
     RequestedPowerMW |-> req,
     PowerMW |-> res.PowerMW,
     EnergyFromGridMWh |-> res.EnergyFromGridMWh,
     EnergyToGridMWh |-> res.EnergyToGridMWh,
     ThroughputMWh |-> res.ThroughputMWh,
     SOCStart |-> res.SOCStart,
     SOCEnd |-> res.SOCEnd,
     PNL |-> res.PNL,
     CumPNL |-> cum]

\* the loop of Engine.Run over intervals idx.. and the return after it (lines
\* 29-77); idx counts from 1: [status, err, result, soc, strat], with soc and
\* strat the battery's state of charge and the strategy the call leaves behind
RECURSIVE RunLoop(_, _, _, _, _, _, _)
RunLoop(ivs, p, soc, s, idx, ledger, cum) ==
    IF idx > Len(ivs)
    THEN [status |-> "ok", err |-> "",
          result |-> [nil |-> FALSE, Ledger |-> ledger, TotalPNL |-> cum, FinalSOC |-> soc],
          soc |-> soc, strat |-> s]
    ELSE
    Let(Decide(s, [Index |-> idx - 1, Interval |-> ivs[idx],
                   Battery |-> [nil |-> FALSE, Params |-> p, SOC |-> soc]]), LAMBDA req :
        IF req.panic
        THEN [status |-> "panic", err |-> "", result |-> NoResult, soc |-> soc, strat |-> req.s]
        ELSE
        Let(ApplyDispatch(p, soc, ivs[idx].LMP, req.d, DurationHours(ivs[idx])), LAMBDA a :
            IF a.err # ""
            THEN [status |-> "error", err |-> "apply dispatch: " \o a.err,
                  result |-> NoResult, soc |-> a.soc, strat |-> req.s]
            ELSE
            Let(Accumulate(cum, a.res.PNL), LAMBDA cum1 :
                RunLoop(ivs, p, a.soc, req.s, idx + 1,
                        Append(ledger, LedgerRow(idx - 1, ivs[idx], req.d, a.res, cum1)),
                        cum1))))

\* Engine.Run without the check for an empty interval sequence
EngineRunNoEmptyCheck(ivs, b, s) ==
    IF b.nil
    THEN [status |-> "error", err |-> "battery is nil", result |-> NoResult,
          soc |-> Zero, strat |-> s]
    ELSE IF s.name = "nil"
    THEN [status |-> "error", err |-> "strategy is nil", result |-> NoResult,
          soc |-> b.SOC, strat |-> s]
    ELSE RunLoop(ivs, b.Params, b.SOC, s, 1, <<>>, Zero)

\* Engine.Run(intervals, batt, strat)
EngineRun(ivs, b, s) ==
    IF b.nil
    THEN [status |-> "error", err |-> "battery is nil", result |-> NoResult,
          soc |-> Zero, strat |-> s]
    ELSE IF s.name = "nil"
    THEN [status |-> "error", err |-> "strategy is nil", result |-> NoResult,
          soc |-> b.SOC, strat |-> s]
    ELSE IF Len(ivs) = 0
    THEN [status |-> "error", err |-> "no intervals", result |-> NoResult,
          soc |-> b.SOC, strat |-> s]
    ELSE RunLoop(ivs, b.Params, b.SOC, s, 1, <<>>, Zero)

----------------------------------------------------------------------------
(* Inputs *)

\* valid batteries: the 10 MWh / 10 MW lossless battery on [0, 1], and a
\* 4 MWh / 2 MW battery with both efficiencies 1/2 on [1/4, 3/4] and a
\* degradation cost of 1 $/MWh
ParamsA == BatteryParams(I(10), I(10), One, One, Zero, One, Zero)
ParamsB == BatteryParams(I(4), I(2), R(1, 2), R(1, 2), R(1, 4), R(3, 4), One)

BatteryCandidates ==
    {[params |-> ParamsA, soc |-> s] : s \in {Zero, R(1, 2)}}
    \cup {[params |-> ParamsB, soc |-> s] : s \in {R(1, 4), R(3, 4), One}}
    \cup {[params |-> q, soc |-> R(1, 2)] :
            q \in {[ParamsA EXCEPT !.EnergyCapacityMWh = Zero],
                   [ParamsA EXCEPT !.PowerCapacityMW = I(-1)],
                   [ParamsA EXCEPT !.ChargeEfficiency = Zero],
                   [ParamsA EXCEPT !.DischargeEfficiency = R(3, 2)],
                   [ParamsA EXCEPT !.MinSOC = R(3, 4), !.MaxSOC = R(1, 4)],
                   [ParamsA EXCEPT !.DegradationCostPerMWh = I(-1)]}}

Prices == {I(-20), R(-1, 2), I(10), I(90)}

\* requested powers and durations (hours) of direct ApplyDispatch calls
Requests == {NaN, PosInf, NegInf, I(-100), I(-10), I(-1), Zero, I(1), I(10), I(100)}
Durations == {One, R(1, 2), Zero, I(-1)}

\* interval rows: price, length in minutes, and whether the row carries its UTC
\* times; row k of a series starts k-1 hours after 22:00 local of day 1, and
\* UTC is eight hours ahead
IntervalKinds ==
    {[lmp |-> I(-20), dur |-> 60, utc |-> TRUE], [lmp |-> I(10), dur |-> 60, utc |-> TRUE],
     [lmp |-> I(90), dur |-> 60, utc |-> TRUE], [lmp |-> I(90), dur |-> 30, utc |-> TRUE],
     [lmp |-> I(10), dur |-> 0, utc |-> TRUE], [lmp |-> I(90), dur |-> -30, utc |-> TRUE],
     [lmp |-> I(10), dur |-> 60, utc |-> FALSE]}
BaseStart == MinutesPerDay + 22 * MinutesPerHour
UTCOffset == 8 * MinutesPerHour

MkIntervals(ks) ==
    [k \in 1..Len(ks) |->
        LET st == BaseStart + MinutesPerHour * (k - 1)
        IN  [IntervalStartLocal |-> st, IntervalEndLocal |-> st + ks[k].dur,
             IntervalStartUTC |-> IF ks[k].utc THEN st + UTCOffset ELSE ZeroTime,
             IntervalEndUTC |-> IF ks[k].utc THEN st + UTCOffset + ks[k].dur ELSE ZeroTime,
             LMP |-> ks[k].lmp]]

IntervalSeries == {MkIntervals(ks) : ks \in UNION {[1..n -> IntervalKinds] : n \in 0..MaxIntervals}}

T2200 == <<"2", "2", ":", "0", "0">>
T2300 == <<"2", "3", ":", "0", "0">>
T0000 == <<"0", "0", ":", "0", "0">>
T0200 == <<" ", "2", ":", "0", "0", " ">>
T2400 == <<"2", "4", ":", "0", "0">>
T2260 == <<"2", "2", ":", "6", "0">>
TNoColon == <<"2", "2", "0", "0">>
Blank == <<>>

ScheduleParams(cs, ce, ds, de, cp, dp) ==
    [ChargeStart |-> cs, ChargeEnd |-> ce, DischargeStart |-> ds, DischargeEnd |-> de,
     ChargePowerMW |-> cp, DischargePowerMW |-> dp]

\* the wrap-around scenario: charge 22:00-00:00, discharge 00:00-02:00, 10 MW
\* each, over four one-hour rows from 22:00 at prices 10, 10, 90, 90
ScenarioDSchedule == ScheduleParams(T2200, T0000, T0000, T0200, I(10), I(10))
ScenarioDPrices == <<I(10), I(10), I(90), I(90)>>
ScenarioDIntervals ==
    MkIntervals([k \in 1..Len(ScenarioDPrices) |->
                    [lmp |-> ScenarioDPrices[k], dur |-> MinutesPerHour, utc |-> TRUE]])

ScheduleConfigs ==
    {ScheduleParams(T2200, Blank, T2300, T0000, I(10), I(10)),
     ScheduleParams(T2300, T0000, T2200, T2300, I(-1), I(100)),
     ScheduleParams(T2200, T0200, T2200, T0200, I(3), I(10)),
     ScheduleParams(T2200, T2300, T2300, Blank, NaN, I(10)),
     ScheduleParams(T2300, T0000, T2200, T2300, I(10), PosInf),
     ScheduleParams(T2200, T2400, T2300, Blank, I(10), I(10)),
     ScheduleParams(T2200, T2300, T2260, T0000, I(10), I(10)),
     ScheduleParams(T2200, T2300, T2300, TNoColon, I(10), I(10)),
     ScenarioDSchedule}

OracleConfigs == {[SocSteps |-> 2, PowerSteps |-> 1], [SocSteps |-> 4, PowerSteps |-> 2],
                  [SocSteps |-> 1, PowerSteps |-> 1], [SocSteps |-> 3, PowerSteps |-> 1]}

NoConfig == [name |-> "nil"]
NoWindow == [tMins |-> 0, start |-> 0, end |-> 0, in |-> FALSE]
NoContext == [nil |-> TRUE]
NoDecision == [nil |-> TRUE]
NoSummary == [nil |-> TRUE]
NoRequest == [kind |-> "none"]
NoResponse == [status |-> 0, code |-> "none", panic |-> FALSE, Summary |-> NoSummary,
               Ledger |-> <<>>, Comparison |-> <<>>]
NoCall == [lmp |-> Zero, d |-> Zero, durationHours |-> Zero]

\* the cache and the client before the process starts
NoEnv == [ENABLE_GRIDSTATUS_CACHE |-> "", API_ENV |-> "", started |-> FALSE]
NoCache == [nil |-> TRUE]

\* a sync.RWMutex nobody holds
Unlocked == [writer |-> "", readers |-> {}]

Goroutines == {"g1", "g2"}

NoOutcome == [found |-> FALSE, resp |-> ""]
NoReturn == [resp |-> "", err |-> ""]
IdleGoroutine ==
    [pc |-> "idle", fn |-> "", apiKey |-> "", params |-> <<>>, key |-> <<>>, val |-> "",
     at |-> 0, out |-> NoOutcome, ret |-> NoReturn]

----------------------------------------------------------------------------
(* The state machine *)

Init ==
    /\ pc = "start"
    /\ batt = NoBattery
    /\ initialSOC = Zero
    /\ intervals = <<>>
    /\ strat = NoStrategy
    /\ cfg = NoConfig
    /\ result = NoResult
    /\ err = ""
    /\ lastCall = NoCall
    /\ lastRes = ZeroResult
    /\ ncalls = 0
    /\ lastWindow = NoWindow
    /\ lastCtx = NoContext
    /\ lastDecision = NoDecision
    /\ request = NoRequest
    /\ response = NoResponse
    /\ byLocation = <<>>
    /\ ranked = <<>>
    /\ env = NoEnv
    /\ globalCache = NoCache
    /\ mu = Unlocked
    /\ now = 0
    /\ goroutines = [g \in Goroutines |-> IdleGoroutine]
    /\ sweeper = "off"
    /\ completed = <<>>

\* model.NewBattery(params, initialSOC)
NewBattery ==
    /\ pc = "start"
    /\ \E c \in BatteryCandidates : \E e \in {Validate(c.params, c.soc)} :
            /\ err' = e
            /\ initialSOC' = c.soc
            /\ batt' = IF e = "" THEN [nil |-> FALSE, Params |-> c.params, SOC |-> c.soc]
                             ELSE NoBattery
            /\ pc' = IF e = "" THEN "battery" ELSE "rejected"
    /\ UNCHANGED <<intervals, strat, cfg, result, lastCall, lastRes, ncalls, callVars, apiVars, rankVars, cacheVars>>

\* a direct call batt.ApplyDispatch(lmp, Dispatch{d}, durationHours)
Dispatch ==
    /\ pc = "battery"
    /\ ncalls < MaxCalls
    /\ \E lmp \in Prices, d \in Requests, dt \in Durations :
        \E a \in {ApplyDispatch(batt.Params, batt.SOC, lmp, d, dt)} :
            /\ batt' = [batt EXCEPT !.SOC = a.soc]
            /\ lastRes' = a.res
            /\ err' = a.err
            /\ lastCall' = [lmp |-> lmp, d |-> d, durationHours |-> dt]
    /\ ncalls' = ncalls + 1
    /\ UNCHANGED <<pc, initialSOC, intervals, strat, cfg, result, callVars, apiVars, rankVars, cacheVars>>

\* the caller obtains the interval series
Fetch ==
    /\ pc = "battery"
    /\ \E ivs \in IntervalSeries \cup {ScenarioDIntervals} : intervals' = ivs
    /\ pc' = "fetched"
    /\ UNCHANGED <<batt, initialSOC, strat, cfg, result, err, lastCall, lastRes, ncalls, callVars, apiVars, rankVars, cacheVars>>

\* the caller builds a ScheduleStrategy
BuildSchedule ==
    /\ pc = "fetched"
    /\ \E sp \in ScheduleConfigs :
        /\ cfg' = [name |-> "schedule", params |-> sp]
        /\ strat' = ScheduleStrategy(sp)
    /\ pc' = "built"
    /\ UNCHANGED <<batt, initialSOC, intervals, result, err, lastCall, lastRes, ncalls, callVars, apiVars, rankVars, cacheVars>>

\* the caller builds an OracleStrategy from the intervals and the battery
BuildOracle ==
    /\ pc = "fetched"
    /\ \E oc \in OracleConfigs :
        \E o \in {NewOracleStrategy(intervals, batt.Params, batt.SOC, oc)} :
            /\ cfg' = [name |-> "oracle", params |-> oc]
            /\ strat' = o.s
            /\ err' = o.err
            /\ pc' = IF o.err = "" THEN "built" ELSE "failed"
    /\ UNCHANGED <<batt, initialSOC, intervals, result, lastCall, lastRes, ncalls, callVars, apiVars, rankVars, cacheVars>>

\* Engine.Run(intervals, batt, strat)
Run ==
    /\ pc = "built"
    /\ \E r \in {EngineRun(intervals, batt, strat)} :
           /\ result' = r.result
           /\ err' = r.err
           /\ batt' = [batt EXCEPT !.SOC = r.soc]
           /\ strat' = r.strat
           /\ pc' = IF r.status = "ok" THEN "done" ELSE r.status
    /\ UNCHANGED <<initialSOC, intervals, cfg, lastCall, lastRes, ncalls, callVars, apiVars, rankVars, cacheVars>>

\* direct use of the battery
NextBattery == NewBattery \/ Dispatch
SpecBattery == Init /\ [][NextBattery]_vars

\* a backtest
Next == NewBattery \/ Fetch \/ BuildSchedule \/ BuildOracle \/ Run
Spec == Init /\ [][Next]_vars

----------------------------------------------------------------------------
(* Direct use of the schedule strategy *)

\* minutes of the day handed to inWindow: 00:00, 00:01, 01:30, 02:00, 21:59,
\* 22:00, 22:30 and 23:59
WindowMinutes == {0, 1, 90, 120, 1319, 1320, 1350, 1439}

\* local start times of the intervals handed to Decide: two days, the minutes
\* 00:00, 01:30, 02:00, 21:59, 22:00, 22:30, 23:00 and 23:30
DecideMinutes == {0, 90, 120, 1319, 1320, 1350, 1380, 1410}
DecideIndexes == {0, 1, 7}
DecideContexts ==
    {[Index |-> i,
      Interval |-> [IntervalStartLocal |-> day * MinutesPerDay + m,
                    IntervalEndLocal |-> day * MinutesPerDay + m + MinutesPerHour,
                    IntervalStartUTC |-> day * MinutesPerDay + m + UTCOffset,
                    IntervalEndUTC |-> day * MinutesPerDay + m + UTCOffset + MinutesPerHour,
                    LMP |-> I(10)],
      Battery |-> [nil |-> FALSE, Params |-> ParamsA, SOC |-> soc]] :
        i \in DecideIndexes, day \in {1, 2}, m \in DecideMinutes, soc \in {Zero, R(1, 2)}}

\* a direct call inWindow(tMins, start, end)
InWindowCall ==
    /\ pc = "start"
    /\ \E t \in WindowMinutes, s \in WindowMinutes, e \in WindowMinutes :
           lastWindow' = [tMins |-> t, start |-> s, end |-> e, in |-> inWindow(t, s, e)]
    /\ pc' = "window"
    /\ UNCHANGED <<batt, initialSOC, intervals, strat, cfg, result, err, lastCall,
                   lastRes, ncalls, lastCtx, lastDecision, apiVars, rankVars, cacheVars>>

\* &strategy.ScheduleStrategy{Params: sp}
NewSchedule ==
    /\ pc = "start"
    /\ \E sp \in ScheduleConfigs :
        /\ cfg' = [name |-> "schedule", params |-> sp]
        /\ strat' = ScheduleStrategy(sp)
    /\ pc' = "strategy"
    /\ UNCHANGED <<batt, initialSOC, intervals, result, err, lastCall, lastRes, ncalls,
                   callVars, apiVars, rankVars, cacheVars>>

\* a direct call strat.Decide(ctx)
DecideCall ==
    /\ pc = "strategy"
    /\ ncalls < MaxCalls
    /\ \E c \in DecideContexts : \E r \in {ScheduleDecide(strat, c)} :
        /\ lastCtx' = c
        /\ lastDecision' = [nil |-> FALSE, panic |-> r.panic, d |-> r.d]
        /\ strat' = r.s
        /\ pc' = IF r.panic THEN "panic" ELSE pc
    /\ ncalls' = ncalls + 1
    /\ UNCHANGED <<batt, initialSOC, intervals, cfg, result, err, lastCall, lastRes,
                   lastWindow, apiVars, rankVars, cacheVars>>

NextSchedule == InWindowCall \/ NewSchedule \/ DecideCall
SpecSchedule == Init /\ [][NextSchedule]_vars

----------------------------------------------------------------------------
(* Configuration: internal/config/config.go, and the strategy parameters   *)
(* map[string]any as a function from keys to tagged values                  *)

StrVal(s) == [kind |-> "string", s |-> s, v |-> Zero]
NumVal(x) == [kind |-> "float64", s |-> <<>>, v |-> x]
IntVal(n) == [kind |-> "int", s |-> <<>>, v |-> I(n)]
NilVal == [kind |-> "nil", s |-> <<>>, v |-> Zero]

\* int(x) of a finite float64: truncation toward zero
Trunc(x) == IF x[1] >= 0 THEN x[1] \div x[2] ELSE -((-x[1]) \div x[2])

\* mustNum of the CLI (src/unnamed/part_011)
mustNum(m, key, def) ==
    IF key \in DOMAIN m /\ m[key].kind \in {"float64", "int"} THEN m[key].v ELSE def

\* mustStr of the CLI: a string that is blank after trimming counts as absent
mustStr(m, key, def) ==
    IF key \in DOMAIN m /\ m[key].kind = "string" /\ TrimSpace(m[key].s) # <<>>
    THEN m[key].s ELSE def

\* mustNum of package handlers (src/unnamed/part_009)
handlers_mustNum(m, key, def) ==
    IF key \in DOMAIN m /\ m[key].kind \in {"float64", "int"} THEN m[key].v ELSE def

\* mustStr of package handlers: only the empty string counts as absent
handlers_mustStr(m, key, def) ==
    IF key \in DOMAIN m /\ m[key].kind = "string" /\ m[key].s # <<>>
    THEN m[key].s ELSE def

\* config.BatteryConfig (the Name is left out)
BatteryConfig(p, initialSoc) ==
    [EnergyCapacityMWh |-> p.EnergyCapacityMWh, PowerCapacityMW |-> p.PowerCapacityMW,
     ChargeEfficiency |-> p.ChargeEfficiency, DischargeEfficiency |-> p.DischargeEfficiency,
     MinSOC |-> p.MinSOC, MaxSOC |-> p.MaxSOC, InitialSOC |-> initialSoc,
     DegradationCostPerMWh |-> p.DegradationCostPerMWh]

\* BatteryConfig.ToModelParams
ToModelParams(b) ==
    BatteryParams(b.EnergyCapacityMWh, b.PowerCapacityMW, b.ChargeEfficiency,
                  b.DischargeEfficiency, b.MinSOC, b.MaxSOC, b.DegradationCostPerMWh)

\* Config.Validate: "" or the error
ConfigValidate(c) ==
    IF c.Strategy.Name = "" THEN "strategy.name is required"
    ELSE IF Validate(ToModelParams(c.Battery), c.Battery.InitialSOC) # ""
        THEN "battery config invalid"
    ELSE ""

\* config.Load of a file that holds c and names no battery file: [err, cfg]
Load(c) ==
    Let([c EXCEPT !.Battery.InitialSOC =
            IF c.Battery.InitialSOC = Zero THEN c.Battery.MinSOC ELSE @], LAMBDA c1 :
        [err |-> ConfigValidate(c1), cfg |-> c1])

T1000 == <<"1", "0", ":", "0", "0">>
T1700 == <<"1", "7", ":", "0", "0">>
T2359 == <<"2", "3", ":", "5", "9">>

\* the schedule case of buildStrategy with discharge_end defaulting to the
\* discharge start
scheduleFromParams(m, powerCapacityMW) ==
    Let(mustStr(m, "charge_start", T1000), LAMBDA chargeStart :
    Let(mustStr(m, "discharge_start", T1700), LAMBDA dischargeStart :
        ScheduleStrategy(ScheduleParams(
            chargeStart,
            mustStr(m, "charge_end", dischargeStart),
            dischargeStart,
            mustStr(m, "discharge_end", dischargeStart),
            mustNum(m, "charge_power_mw", powerCapacityMW),
            mustNum(m, "discharge_power_mw", powerCapacityMW)))))

\* the schedule case of BacktestHandler.buildStrategy
handlers_scheduleFromParams(m, powerCapacityMW) ==
    Let(handlers_mustStr(m, "charge_start", T1000), LAMBDA chargeStart :
    Let(handlers_mustStr(m, "discharge_start", T1700), LAMBDA dischargeStart :
        ScheduleStrategy(ScheduleParams(
            chargeStart,
            handlers_mustStr(m, "charge_end", dischargeStart),
            dischargeStart,
            handlers_mustStr(m, "discharge_end", T2359),
            handlers_mustNum(m, "charge_power_mw", powerCapacityMW),
            handlers_mustNum(m, "discharge_power_mw", powerCapacityMW)))))

\* the oracle case of both buildStrategy functions: [panic, s]
oracleFromParams(m, ivs, b) ==
    Let(NewOracleStrategy(ivs, b.Params, b.SOC,
            [SocSteps |-> Trunc(mustNum(m, "soc_steps", I(DefaultSocSteps))),
             PowerSteps |-> Trunc(mustNum(m, "power_steps", I(DefaultPowerSteps)))]),
        LAMBDA o :
        IF o.err # "" THEN [panic |-> TRUE, s |-> NoStrategy]
        ELSE [panic |-> FALSE, s |-> o.s])

\* buildStrategy of the CLI: [panic, s]
buildStrategy(c, ivs, b) ==
    IF c.Strategy.Name = "schedule"
    THEN [panic |-> FALSE,
          s |-> scheduleFromParams(c.Strategy.Params, c.Battery.PowerCapacityMW)]
    ELSE IF c.Strategy.Name = "oracle" THEN oracleFromParams(c.Strategy.Params, ivs, b)
    ELSE [panic |-> TRUE, s |-> NoStrategy]

\* BacktestHandler.buildStrategy: [panic, s]
BacktestHandler_buildStrategy(c, ivs, b) ==
    IF c.Strategy.Name = "schedule"
    THEN [panic |-> FALSE,
          s |-> handlers_scheduleFromParams(c.Strategy.Params, c.Battery.PowerCapacityMW)]
    ELSE IF c.Strategy.Name = "oracle" THEN oracleFromParams(c.Strategy.Params, ivs, b)
    ELSE [panic |-> TRUE, s |-> NoStrategy]

----------------------------------------------------------------------------
(* The HTTP handlers of src/unnamed/part_009 and the CLI of part_011.  A   *)
(* request is handled with no battery file named (battery_file = ""), and   *)
(* what the Grid Status API answers is an input of the handler.             *)

\* the first loop of buildSummary were it to keep the end of a day's first row
RECURSIVE windowsByDayFirstRow(_, _, _, _)
windowsByDayFirstRow(ledger, i, field, byDay) ==
    IF i > Len(ledger) THEN byDay
    ELSE IF ~FGt(ledger[i][field], Zero) THEN windowsByDayFirstRow(ledger, i + 1, field, byDay)
    ELSE
    Let(ledger[i], LAMBDA row :
    Let(DayOf(row.IntervalStartLocal), LAMBDA day :
        windowsByDayFirstRow(ledger, i + 1, field,
            IF day \in DOMAIN byDay
            THEN [byDay EXCEPT ![day] =
                    [Start |-> @.Start,
                     End |-> @.End,
                     total |-> FAdd(@.total, FMul(row.LMP, row[field])),
                     totalEnergy |-> FAdd(@.totalEnergy, row[field])]]
            ELSE byDay @@ (day :> [Start |-> row.IntervalStartLocal,
                                   End |-> row.IntervalEndLocal,
                                   total |-> FMul(row.LMP, row[field]),
                                   totalEnergy |-> row[field]]))))

\* one of the two maps of the first loop of buildSummary (lines 607-663), for
\* the rows whose energy in field is positive: day -> [Start, End, total,
\* totalEnergy]
RECURSIVE windowsByDay(_, _, _, _)
windowsByDay(ledger, i, field, byDay) ==
    IF i > Len(ledger) THEN byDay
    ELSE IF ~FGt(ledger[i][field], Zero) THEN windowsByDay(ledger, i + 1, field, byDay)
    ELSE
    Let(ledger[i], LAMBDA row :
    Let(DayOf(row.IntervalStartLocal), LAMBDA day :
        windowsByDay(ledger, i + 1, field,
            IF day \in DOMAIN byDay
            THEN [byDay EXCEPT ![day] =
                    [Start |-> @.Start,
                     End |-> row.IntervalEndLocal,
                     total |-> FAdd(@.total, FMul(row.LMP, row[field])),
                     totalEnergy |-> FAdd(@.totalEnergy, row[field])]]
            ELSE byDay @@ (day :> [Start |-> row.IntervalStartLocal,
                                   End |-> row.IntervalEndLocal,
                                   total |-> FMul(row.LMP, row[field]),
                                   totalEnergy |-> row[field]]))))

\* chargeTotal / dischargeTotal of the first loop
RECURSIVE energyTotal(_, _, _, _)
energyTotal(ledger, i, field, acc) ==
    IF i > Len(ledger) THEN acc
    ELSE energyTotal(ledger, i + 1, field,
                     IF FGt(ledger[i][field], Zero) THEN FAdd(acc, ledger[i][field]) ELSE acc)

\* the second loop of buildSummary (lines 673-711) for one kind of window: the
\* windows in the order in which their days first appear in the ledger
RECURSIVE emitWindows(_, _, _, _, _, _)
emitWindows(ledger, i, field, byDay, seen, out) ==
    IF i > Len(ledger) THEN out
    ELSE
    Let(DayOf(ledger[i].IntervalStartLocal), LAMBDA day :
        IF FGt(ledger[i][field], Zero) /\ day \notin seen /\ day \in DOMAIN byDay
        THEN emitWindows(ledger, i + 1, field, byDay, seen \cup {day},
                Append(out, [Start |-> byDay[day].Start,
                             End |-> byDay[day].End,
                             Average |-> IF FGt(byDay[day].totalEnergy, Zero)
                                         THEN FDiv(byDay[day].total, byDay[day].totalEnergy)
                                         ELSE Zero,
                             EnergyMWh |-> byDay[day].totalEnergy]))
        ELSE emitWindows(ledger, i + 1, field, byDay, seen, out))

\* the windows of one kind, first day first
dayWindows(ledger, field) ==
    emitWindows(ledger, 1, field, windowsByDay(ledger, 1, field, <<>>), {}, <<>>)

\* BacktestHandler.buildSummary
buildSummary(res) ==
    IF Len(res.Ledger) = 0
    THEN [nil |-> FALSE, TotalPNL |-> res.TotalPNL, FinalSOC |-> res.FinalSOC,
          TotalIntervals |-> 0,
          BacktestWindow |-> [Start |-> ZeroTime, End |-> ZeroTime],
          EnergyChargedMWh |-> Zero, EnergyDischargedMWh |-> Zero,
          ChargeWindows |-> <<>>, DischargeWindows |-> <<>>]
    ELSE
    Let(dayWindows(res.Ledger, "EnergyFromGridMWh"), LAMBDA cw :
    Let(dayWindows(res.Ledger, "EnergyToGridMWh"), LAMBDA dw :
        [nil |-> FALSE, TotalPNL |-> res.TotalPNL, FinalSOC |-> res.FinalSOC,
         TotalIntervals |-> Len(res.Ledger),
         BacktestWindow |-> [Start |-> res.Ledger[1].IntervalStartLocal,
                             End |-> res.Ledger[Len(res.Ledger)].IntervalEndLocal],
         EnergyChargedMWh |-> energyTotal(res.Ledger, 1, "EnergyFromGridMWh", Zero),
         EnergyDischargedMWh |-> energyTotal(res.Ledger, 1, "EnergyToGridMWh", Zero),
         ChargeWindows |->
            [k \in 1..Len(cw) |-> [Start |-> cw[k].Start, End |-> cw[k].End,
                                   AverageCostPerMWh |-> cw[k].Average,
                                   EnergyMWh |-> cw[k].EnergyMWh]],
         DischargeWindows |->
            [k \in 1..Len(dw) |-> [Start |-> dw[k].Start, End |-> dw[k].End,
                                   AveragePricePerMWh |-> dw[k].Average,
                                   EnergyMWh |-> dw[k].EnergyMWh]]]))

\* BacktestHandler.convertLedger: the rows field by field
convertLedger(ledger) == [k \in 1..Len(ledger) |-> ledger[k]]

\* what a handler leaves behind: the response written, whether it panicked,
\* and the intervals, battery, strategy and engine result it worked with
Outcome(status, code, panic, summary, ledger, comparison, ivs, b, s, res) ==
    [response |-> [status |-> status, code |-> code, panic |-> panic,
                   Summary |-> summary, Ledger |-> ledger, Comparison |-> comparison],
     intervals |-> ivs, batt |-> b, strat |-> s, result |-> res]

\* c.JSON(status, models.ErrorResponse{Code: code}) and return
ErrorResponse(status, code, ivs, b, s) ==
    Outcome(status, code, FALSE, NoSummary, <<>>, <<>>, ivs, b, s, NoResult)

\* a panic that unwinds out of the handler: middleware.ErrorHandler
\* (src/unnamed/part_010 160-178) answers 500 INTERNAL_ERROR
Recovered(ivs, b, s) ==
    Outcome(500, "INTERNAL_ERROR", TRUE, NoSummary, <<>>, <<>>, ivs, b, s, NoResult)

\* validateAPIKey: "" or the error
validateAPIKey(apiKey) ==
    IF apiKey = <<>> THEN "API key is required"
    ELSE IF Len(apiKey) < 10 THEN "API key appears to be invalid (too short)"
    ELSE IF Len(TrimSpace(apiKey)) = 0 THEN "API key cannot be empty or whitespace"
    ELSE ""

\* BacktestHandler.fetchData; up is what the Grid Status client returns
fetchData(ds, up) ==
    IF ds.Type # "gridstatus"
    THEN [kind |-> "other", StatusCode |-> 0, Code |-> "", data |-> <<>>]
    ELSE up

\* the error answer of a handler to a failed fetchData (lines 213-240, 335-362)
fetchError(f) ==
    IF f.kind = "gridstatus"
    THEN ErrorResponse(IF f.StatusCode \in {401, 403} THEN 401
                       ELSE IF f.StatusCode = 429 THEN 429 ELSE 400,
                       f.Code, <<>>, NoBattery, NoStrategy)
    ELSE ErrorResponse(400, "DATA_FETCH_ERROR", <<>>, NoBattery, NoStrategy)

\* BacktestHandler.buildConfig without a battery file; it returns no error
buildConfig(c) ==
    [c EXCEPT !.Battery.InitialSOC = IF @ = Zero THEN c.Battery.MinSOC ELSE @]

\* BacktestHandler.mergeConfig
mergeConfig(base, override) ==
    [Battery |-> [base.Battery EXCEPT
                    !.EnergyCapacityMWh = IF override.Battery.EnergyCapacityMWh # Zero
                                          THEN override.Battery.EnergyCapacityMWh ELSE @,
                    !.PowerCapacityMW = IF override.Battery.PowerCapacityMW # Zero
                                        THEN override.Battery.PowerCapacityMW ELSE @],
     Strategy |-> IF override.Strategy.Name # "" THEN override.Strategy ELSE base.Strategy]

\* intervals[:limit] when 0 < limit < len(intervals)
limitIntervals(ivs, limit) ==
    IF limit > 0 /\ limit < Len(ivs) THEN SubSeq(ivs, 1, limit) ELSE ivs

\* RunBacktest from the battery's creation on, were the run to start at the
\* configured initial_soc
runFromConfigAtInitialSOC(c, ivs, includeLedger) ==
    IF Validate(ToModelParams(c.Battery), c.Battery.InitialSOC) # ""
    THEN ErrorResponse(400, "INVALID_BATTERY", ivs, NoBattery, NoStrategy)
    ELSE
    Let([nil |-> FALSE, Params |-> ToModelParams(c.Battery), SOC |-> c.Battery.InitialSOC],
        LAMBDA b :
    Let(BacktestHandler_buildStrategy(c, ivs, b), LAMBDA bs :
        IF bs.panic THEN Recovered(ivs, b, bs.s)
        ELSE
        Let(EngineRun(ivs, b, bs.s), LAMBDA r :
            IF r.status = "panic" THEN Recovered(ivs, [b EXCEPT !.SOC = r.soc], r.strat)
            ELSE IF r.status = "error"
                THEN ErrorResponse(500, "BACKTEST_ERROR", ivs, [b EXCEPT !.SOC = r.soc], r.strat)
            ELSE Outcome(200, "", FALSE, buildSummary(r.result),
                         IF includeLedger THEN convertLedger(r.result.Ledger) ELSE <<>>,
                         <<>>, ivs, [b EXCEPT !.SOC = r.soc], r.strat, r.result))))

\* BacktestHandler.RunBacktest from the battery's creation on (lines 262-296)
runFromConfig(c, ivs, includeLedger) ==
    IF Validate(ToModelParams(c.Battery), c.Battery.InitialSOC) # ""
    THEN ErrorResponse(400, "INVALID_BATTERY", ivs, NoBattery, NoStrategy)
    ELSE
    Let([nil |-> FALSE, Params |-> ToModelParams(c.Battery), SOC |-> c.Battery.MinSOC],
        LAMBDA b :
    Let(BacktestHandler_buildStrategy(c, ivs, b), LAMBDA bs :
        IF bs.panic THEN Recovered(ivs, b, bs.s)
        ELSE
        Let(EngineRun(ivs, b, bs.s), LAMBDA r :
            IF r.status = "panic" THEN Recovered(ivs, [b EXCEPT !.SOC = r.soc], r.strat)
            ELSE IF r.status = "error"
                THEN ErrorResponse(500, "BACKTEST_ERROR", ivs, [b EXCEPT !.SOC = r.soc], r.strat)
            ELSE Outcome(200, "", FALSE, buildSummary(r.result),
                         IF includeLedger THEN convertLedger(r.result.Ledger) ELSE <<>>,
                         <<>>, ivs, [b EXCEPT !.SOC = r.soc], r.strat, r.result))))

\* BacktestHandler.RunBacktest(c) for the request req and the upstream answer up
RunBacktest(req, up) ==
    IF req.malformed
    THEN ErrorResponse(400, "INVALID_REQUEST", <<>>, NoBattery, NoStrategy)
    ELSE IF validateAPIKey(req.APIKey) # ""
    THEN ErrorResponse(400, "INVALID_API_KEY", <<>>, NoBattery, NoStrategy)
    ELSE
    Let(fetchData(req.DataSource, up), LAMBDA f :
        IF f.kind # "ok" THEN fetchError(f)
        ELSE runFromConfig(buildConfig(req.Config),
                           limitIntervals(f.data, req.Options.LimitIntervals),
                           req.Options.IncludeLedger))

\* one pass of the loop of CompareBacktests (lines 371-399) for the merged
\* configuration c: [panic, ok, result]
runVariation(c, ivs) ==
    IF Validate(ToModelParams(c.Battery), c.Battery.InitialSOC) # ""
    THEN [panic |-> FALSE, ok |-> FALSE, result |-> NoResult]
    ELSE
    Let([nil |-> FALSE, Params |-> ToModelParams(c.Battery), SOC |-> c.Battery.MinSOC],
        LAMBDA b :
    Let(BacktestHandler_buildStrategy(c, ivs, b), LAMBDA bs :
        IF bs.panic THEN [panic |-> TRUE, ok |-> FALSE, result |-> NoResult]
        ELSE
        Let(EngineRun(ivs, b, bs.s), LAMBDA r :
            [panic |-> r.status = "panic", ok |-> r.status = "ok", result |-> r.result])))

\* the loop of CompareBacktests over variations i..: [panic, comparison]
RECURSIVE compareLoop(_, _, _, _, _)
compareLoop(base, variations, ivs, i, comparison) ==
    IF i > Len(variations) THEN [panic |-> FALSE, comparison |-> comparison]
    ELSE
    Let(runVariation(buildConfig(mergeConfig(base, variations[i].Config)), ivs), LAMBDA o :
        IF o.panic THEN [panic |-> TRUE, comparison |-> comparison]
        ELSE compareLoop(base, variations, ivs, i + 1,
                IF o.ok
                THEN Append(comparison, [Name |-> variations[i].Name,
                                         Summary |-> buildSummary(o.result)])
                ELSE comparison))

\* BacktestHandler.CompareBacktests(c) for the request req and the upstream answer up
CompareBacktests(req, up) ==
    IF req.malformed
    THEN ErrorResponse(400, "INVALID_REQUEST", <<>>, NoBattery, NoStrategy)
    ELSE IF validateAPIKey(req.APIKey) # ""
    THEN ErrorResponse(400, "INVALID_API_KEY", <<>>, NoBattery, NoStrategy)
    ELSE
    Let(fetchData(req.DataSource, up), LAMBDA f :
        IF f.kind # "ok" THEN fetchError(f)
        ELSE
        Let(compareLoop(req.BaseConfig, req.Variations, f.data, 1, <<>>), LAMBDA l :
            IF l.panic THEN Recovered(f.data, NoBattery, NoStrategy)
            ELSE Outcome(200, "", FALSE, NoSummary, <<>>, l.comparison,
                         f.data, NoBattery, NoStrategy, NoResult)))

\* cmdBacktest of the CLI with --config naming a file that holds c, --data a
\* file that holds ivs and -n limit; a panic ends the process with status 2
cmdBacktest(c, ivs0, limit) ==
    Let(limitIntervals(ivs0, limit), LAMBDA ivs :
    Let(Load(c), LAMBDA l :
        IF l.err # ""
        THEN Outcome(2, "", TRUE, NoSummary, <<>>, <<>>, ivs, NoBattery, NoStrategy, NoResult)
        ELSE
        Let([nil |-> FALSE, Params |-> ToModelParams(l.cfg.Battery),
             SOC |-> l.cfg.Battery.MinSOC], LAMBDA b :
        Let(buildStrategy(l.cfg, ivs, b), LAMBDA bs :
            IF bs.panic
            THEN Outcome(2, "", TRUE, NoSummary, <<>>, <<>>, ivs, b, bs.s, NoResult)
            ELSE
            Let(EngineRun(ivs, b, bs.s), LAMBDA r :
                IF r.status # "ok"
                THEN Outcome(2, "", TRUE, NoSummary, <<>>, <<>>, ivs,
                             [b EXCEPT !.SOC = r.soc], r.strat, NoResult)
                ELSE Outcome(0, "", FALSE, NoSummary, r.result.Ledger, <<>>, ivs,
                             [b EXCEPT !.SOC = r.soc], r.strat, r.result))))))

----------------------------------------------------------------------------
(* Inputs of the handlers *)

\* interval rows of whole-day tests: price, and whether the row starts an hour
\* after the row before it or a day after it; the first row starts at 21:00
\* local of day 1 and every row lasts an hour
DayStart == MinutesPerDay + 21 * MinutesPerHour
DayKinds == {[lmp |-> l, gap |-> g] : l \in {I(10), I(90)}, g \in {MinutesPerHour, MinutesPerDay}}

RECURSIVE StartsOf(_, _)
StartsOf(ks, k) ==
    IF k = 1 THEN DayStart ELSE StartsOf(ks, k - 1) + ks[k].gap

MkDaySeries(ks) ==
    [k \in 1..Len(ks) |->
        Let(StartsOf(ks, k), LAMBDA st :
            [IntervalStartLocal |-> st, IntervalEndLocal |-> st + MinutesPerHour,
             IntervalStartUTC |-> st + UTCOffset,
             IntervalEndUTC |-> st + UTCOffset + MinutesPerHour,
             LMP |-> ks[k].lmp])]

DaySeries == {MkDaySeries(ks) : ks \in UNION {[1..n -> DayKinds] : n \in 1..MaxDayIntervals}}

\* what the Grid Status client returns to fetchData: data, among them no rows
\* and a row of no length, or an error
BadSeries ==
    {<<>>, MkIntervals(<<[lmp |-> I(10), dur |-> 0, utc |-> TRUE]>>)}
UpstreamErrors ==
    {[kind |-> "gridstatus", StatusCode |-> 401, Code |-> "UNAUTHORIZED", data |-> <<>>],
     [kind |-> "gridstatus", StatusCode |-> 403, Code |-> "INVALID_API_KEY", data |-> <<>>],
     [kind |-> "gridstatus", StatusCode |-> 429, Code |-> "RATE_LIMIT_EXCEEDED", data |-> <<>>],
     [kind |-> "gridstatus", StatusCode |-> 500, Code |-> "API_ERROR", data |-> <<>>],
     [kind |-> "other", StatusCode |-> 0, Code |-> "", data |-> <<>>]}
UpstreamData(S) == {[kind |-> "ok", StatusCode |-> 200, Code |-> "", data |-> ivs] : ivs \in S}

KeyValid == <<"k", "e", "y", "-", "0", "1", "2", "3", "4", "5">>
KeyShort == <<"k", "e", "y">>
KeySpaces == <<" ", " ", " ", " ", " ", " ", " ", " ", " ", " ">>

T2100 == <<"2", "1", ":", "0", "0">>
TSpaces == <<" ", " ">>

\* strategy configurations: schedules with all, some and none of the keys, one
\* with a blank discharge_end and a nil charge_end, one whose charge window
\* wraps around the discharge window, one with a malformed time; oracles;
\* and a strategy name that does not exist
StrategyConfigs ==
    {[Name |-> "schedule",
      Params |-> [charge_start |-> StrVal(T2100), charge_end |-> StrVal(T2200),
                  discharge_start |-> StrVal(T2200), discharge_end |-> StrVal(T2300),
                  charge_power_mw |-> NumVal(I(10)), discharge_power_mw |-> IntVal(5)]],
     [Name |-> "schedule",
      Params |-> [charge_start |-> StrVal(T2100), discharge_start |-> StrVal(T2200)]],
     [Name |-> "schedule", Params |-> [comment |-> StrVal(T0000)]],
     [Name |-> "schedule",
      Params |-> [charge_start |-> StrVal(T2100), charge_end |-> NilVal,
                  discharge_start |-> StrVal(T2200), discharge_end |-> StrVal(TSpaces)]],
     [Name |-> "schedule",
      Params |-> [charge_start |-> StrVal(T2300), charge_end |-> StrVal(T2200),
                  discharge_start |-> StrVal(T2200), discharge_end |-> StrVal(T2300)]],
     [Name |-> "schedule",
      Params |-> [charge_start |-> StrVal(T2100), discharge_start |-> StrVal(T2260)]],
     [Name |-> "oracle", Params |-> [soc_steps |-> NumVal(I(2)), power_steps |-> NumVal(I(1))]],
     [Name |-> "oracle", Params |-> [soc_steps |-> IntVal(4), power_steps |-> NumVal(R(5, 2))]],
     [Name |-> "bogus", Params |-> [comment |-> StrVal(T0000)]]}

\* battery configurations: valid ones with and without an initial_soc, and one
\* of no capacity
BatteryConfigs ==
    {BatteryConfig(ParamsA, Zero), BatteryConfig(ParamsA, R(1, 2)),
     BatteryConfig(ParamsB, R(3, 4)),
     BatteryConfig([ParamsA EXCEPT !.EnergyCapacityMWh = Zero], Zero)}

Configs == {[Battery |-> b, Strategy |-> s] : b \in BatteryConfigs, s \in StrategyConfigs}

DataSource == [Type |-> "gridstatus"]
OptionSets == {[LimitIntervals |-> 0, IncludeLedger |-> TRUE],
               [LimitIntervals |-> 1, IncludeLedger |-> FALSE]}

BacktestRequest(malformed, key, ds, c, o) ==
    [kind |-> "backtest", malformed |-> malformed, APIKey |-> key, DataSource |-> ds,
     Config |-> c, Options |-> o]

\* POST /api/v1/backtest: well-formed requests, and requests with one fault
BacktestRequests ==
    {BacktestRequest(FALSE, KeyValid, DataSource, c, o) : c \in Configs, o \in OptionSets}
    \cup {BacktestRequest(m, k, d, CHOOSE c \in Configs : TRUE, CHOOSE o \in OptionSets : TRUE) :
            m \in BOOLEAN, k \in {<<>>, KeyShort, KeySpaces, KeyValid},
            d \in {DataSource, [Type |-> "csv"]}}

\* variations of a comparison: a schedule, an oracle, a schedule with a larger
\* battery and the base strategy, a battery of negative power, a strategy name
\* that does not exist, and a schedule with a malformed time
NoOverride == BatteryConfig([ParamsA EXCEPT !.EnergyCapacityMWh = Zero,
                                           !.PowerCapacityMW = Zero], Zero)
Variations ==
    {[Name |-> "evening",
      Config |-> [Battery |-> NoOverride,
                  Strategy |-> [Name |-> "schedule",
                                Params |-> [charge_start |-> StrVal(T2100),
                                            discharge_start |-> StrVal(T2200),
                                            discharge_end |-> StrVal(T2300)]]]],
     [Name |-> "oracle",
      Config |-> [Battery |-> NoOverride,
                  Strategy |-> [Name |-> "oracle",
                                Params |-> [soc_steps |-> NumVal(I(2)),
                                            power_steps |-> NumVal(I(1))]]]],
     [Name |-> "larger",
      Config |-> [Battery |-> [NoOverride EXCEPT !.EnergyCapacityMWh = I(20)],
                  Strategy |-> [Name |-> "", Params |-> [comment |-> StrVal(T0000)]]]],
     [Name |-> "negative",
      Config |-> [Battery |-> [NoOverride EXCEPT !.PowerCapacityMW = I(-1)],
                  Strategy |-> [Name |-> "", Params |-> [comment |-> StrVal(T0000)]]]],
     [Name |-> "bogus",
      Config |-> [Battery |-> NoOverride,
                  Strategy |-> [Name |-> "bogus", Params |-> [comment |-> StrVal(T0000)]]]],
     [Name |-> "malformed",
      Config |-> [Battery |-> NoOverride,
                  Strategy |-> [Name |-> "schedule",
                                Params |-> [charge_start |-> StrVal(T2100),
                                            discharge_start |-> StrVal(T2260)]]]]}

BaseConfig ==
    [Battery |-> BatteryConfig(ParamsA, R(1, 2)),
     Strategy |-> [Name |-> "schedule",
                   Params |-> [charge_start |-> StrVal(T2100), charge_end |-> StrVal(T2200),
                               discharge_start |-> StrVal(T2200),
                               discharge_end |-> StrVal(T2300)]]]

CompareRequest(malformed, key, vs) ==
    [kind |-> "compare", malformed |-> malformed, APIKey |-> key, DataSource |-> DataSource,
     BaseConfig |-> BaseConfig, Variations |-> vs]

\* POST /api/v1/backtest/compare
CompareRequests ==
    {CompareRequest(FALSE, KeyValid, vs) :
        vs \in UNION {[1..n -> Variations] : n \in 1..MaxVariations}}
    \cup {CompareRequest(TRUE, KeyValid, <<>>), CompareRequest(FALSE, KeyShort, <<>>)}

\* the series a comparison fetches
CompareSeries == {ivs \in DaySeries : Len(ivs) = 2} \cup BadSeries

\* configuration files of the CLI: the configurations above and one without
\* a strategy name
CliConfigs ==
    Configs \cup {[Battery |-> BatteryConfig(ParamsA, Zero),
                   Strategy |-> [Name |-> "", Params |-> [comment |-> StrVal(T0000)]]]}

----------------------------------------------------------------------------
(* The handlers as a state machine *)

\* what a handler leaves in the variables
Leaves(req, o) ==
    /\ request' = req
    /\ response' = o.response
    /\ intervals' = o.intervals
    /\ batt' = o.batt
    /\ strat' = o.strat
    /\ result' = o.result
    /\ pc' = "responded"
    /\ UNCHANGED <<initialSOC, cfg, err, lastCall, lastRes, ncalls, callVars, rankVars, cacheVars>>

\* POST /api/v1/backtest
PostBacktest ==
    /\ pc = "start"
    /\ \E req \in BacktestRequests :
       \E up \in UpstreamData(DaySeries \cup BadSeries) \cup UpstreamErrors :
           \E o \in {RunBacktest(req, up)} : Leaves(req, o)

\* POST /api/v1/backtest/compare
PostCompare ==
    /\ pc = "start"
    /\ \E req \in CompareRequests :
       \E up \in UpstreamData(CompareSeries) \cup UpstreamErrors :
           \E o \in {CompareBacktests(req, up)} : Leaves(req, o)

\* cli backtest --config ... --data ... -n ...
CliBacktest ==
    /\ pc = "start"
    /\ \E c \in CliConfigs, ivs \in DaySeries \cup BadSeries, n \in {0, 1} :
           \E o \in {cmdBacktest(c, ivs, n)} :
               Leaves([kind |-> "cli", Config |-> c, n |-> n], o)

NextAPI == PostBacktest \/ PostCompare \/ CliBacktest
SpecAPI == Init /\ [][NextAPI]_vars

----------------------------------------------------------------------------
(* Direct use of the oracle strategy *)

\* batteries handed to NewOracleStrategy with their initial SOC
OracleBatteries ==
    {[params |-> ParamsA, soc |-> Zero], [params |-> ParamsA, soc |-> R(1, 2)],
     [params |-> ParamsB, soc |-> R(3, 4)]}

\* ctx.Index of a direct call: before the plan, inside it and past its end
OracleIndexes == -1..(MaxDayIntervals + 1)

\* the Context of interval i (counted from 0) of a run; an index outside the
\* series carries the first interval
OracleContext(ivs, b, i) ==
    [Index |-> i,
     Interval |-> IF i >= 0 /\ i < Len(ivs) THEN ivs[i + 1] ELSE ivs[1],
     Battery |-> b]

\* data.NewOracleStrategy(intervals, params, initialSOC, cfg)
NewOracle ==
    /\ pc = "start"
    /\ \E c \in OracleBatteries, ivs \in DaySeries, oc \in OracleConfigs :
        \E o \in {NewOracleStrategy(ivs, c.params, c.soc, oc)} :
            /\ intervals' = ivs
            /\ batt' = [nil |-> FALSE, Params |-> c.params, SOC |-> c.soc]
            /\ initialSOC' = c.soc
            /\ cfg' = [name |-> "oracle", params |-> oc]
            /\ strat' = o.s
            /\ err' = o.err
            /\ pc' = IF o.err = "" THEN "oracle" ELSE "failed"
    /\ UNCHANGED <<result, lastCall, lastRes, ncalls, callVars, apiVars, rankVars, cacheVars>>

\* a direct call strat.Decide(ctx) on the oracle strategy
OracleCall ==
    /\ pc = "oracle"
    /\ \E i \in OracleIndexes :
        \E c \in {OracleContext(intervals, batt, i)} : \E r \in {Decide(strat, c)} :
            /\ lastCtx' = c
            /\ lastDecision' = [nil |-> FALSE, panic |-> r.panic, d |-> r.d]
            /\ strat' = r.s
    /\ pc' = "decided"
    /\ UNCHANGED <<batt, initialSOC, intervals, cfg, result, err, lastCall, lastRes,
                   ncalls, lastWindow, apiVars, rankVars, cacheVars>>

NextOracle == NewOracle \/ OracleCall
SpecOracle == Init /\ [][NextOracle]_vars

----------------------------------------------------------------------------
(* internal/analysis/rank.go *)

\* math.Floor and math.Ceil of a finite value
Floor(x) == x[1] \div x[2]
Ceil(x) == -((-x[1]) \div x[2])

\* the order of sort.Float64s: ascending, NaN before every number
lessFloat64(x, y) == FLt(x, y) \/ (IsNaN(x) /\ ~IsNaN(y))

\* sort.Float64s on fewer than 13 values: an insertion sort
RECURSIVE insertFloat64(_, _)
insertFloat64(data, j) ==
    IF j > 1 /\ lessFloat64(data[j], data[j - 1])
    THEN insertFloat64([data EXCEPT ![j] = data[j - 1], ![j - 1] = data[j]], j - 1)
    ELSE data

RECURSIVE sortFloat64sFrom(_, _)
sortFloat64sFrom(data, i) ==
    IF i > Len(data) THEN data ELSE sortFloat64sFrom(insertFloat64(data, i), i + 1)

sortFloat64s(data) == sortFloat64sFrom(data, 2)

\* percentileSorted; sorted is indexed from 1 here
percentileSorted(sorted, q) ==
    IF Len(sorted) = 0 THEN Zero
    ELSE IF FLe(q, Zero) THEN sorted[1]
    ELSE IF FGe(q, One) THEN sorted[Len(sorted)]
    ELSE
    Let(FMul(q, I(Len(sorted) - 1)), LAMBDA pos :
        IF Floor(pos) = Ceil(pos) THEN sorted[Floor(pos) + 1]
        ELSE Let(FSub(pos, I(Floor(pos))), LAMBDA frac :
                 FAdd(FMul(sorted[Floor(pos) + 1], FSub(One, frac)),
                      FMul(sorted[Ceil(pos) + 1], frac))))

\* negInf of oracleProfitCanonical: -1e100 in the code, here a value below
\* every profit a series of the model can reach, and half of it
CanonicalNegInf == I(-1000000)
CanonicalNegInfHalf == I(-500000)

\* next[j] after the loop over socIdx of one interval: the candidates reach
\* next[j] from socIdx = j - 1 (charge), j (idle) and j + 1 (discharge), in
\* this order, each kept if it is greater than what is there
canonicalKeepLast(cur, cand) == cand

canonicalKeep(cur, cand) == IF FGt(cand, cur) THEN cand ELSE cur

canonicalLive(dp, i, steps) == i >= 0 /\ i <= steps /\ ~FLe(dp[i], CanonicalNegInfHalf)

canonicalNext(dp, price, dt, steps) ==
    Tabulated([j \in 0..steps |->
        Let(IF canonicalLive(dp, j - 1, steps)
            THEN canonicalKeep(CanonicalNegInf, FAdd(dp[j - 1], FNeg(FMul(price, dt))))
            ELSE CanonicalNegInf, LAMBDA afterCharge :
        Let(IF canonicalLive(dp, j, steps) THEN canonicalKeep(afterCharge, dp[j])
            ELSE afterCharge, LAMBDA afterIdle :
            IF canonicalLive(dp, j + 1, steps)
            THEN canonicalKeep(afterIdle, FAdd(dp[j + 1], FMul(price, dt)))
            ELSE afterIdle))])

RECURSIVE canonicalLoop(_, _, _, _, _)
canonicalLoop(ivs, k, dp, dt, steps) ==
    IF k > Len(ivs) THEN dp
    ELSE canonicalLoop(ivs, k + 1, canonicalNext(dp, ivs[k].LMP, dt, steps), dt, steps)

RECURSIVE canonicalBest(_, _, _)
canonicalBest(dp, i, best) ==
    IF i > Len(dp) THEN best
    ELSE canonicalBest(dp, i + 1, canonicalKeep(best, dp[i]))

\* the number of SOC steps and the initial state of the canonical battery
canonicalSteps(dt) == IF Round(FDiv(One, dt)) < 1 THEN 1 ELSE Round(FDiv(One, dt))

canonicalInit(steps) ==
    Let(Round(FMul(R(1, 2), I(steps))), LAMBDA init :
        IF init < 0 THEN 0 ELSE IF init > steps THEN steps ELSE init)

oracleProfitCanonical(ivs) ==
    IF Len(ivs) = 0 THEN Zero
    ELSE IF FLe(DurationHours(ivs[1]), Zero) THEN Zero
    ELSE
    Let(DurationHours(ivs[1]), LAMBDA dt :
    Let(canonicalSteps(dt), LAMBDA steps :
    Let(canonicalLoop(ivs, 1,
                      Tabulated([i \in 0..steps |-> IF i = canonicalInit(steps) THEN Zero
                                                    ELSE CanonicalNegInf]),
                      dt, steps), LAMBDA dp :
    Let(canonicalBest(Tabulated([i \in 1..(steps + 1) |-> dp[i - 1]]), 1, CanonicalNegInf),
        LAMBDA best :
        IF FLe(best, CanonicalNegInfHalf) THEN Zero ELSE best))))

\* the loop of ComputePotential over the prices: [sum, minv, maxv]
RECURSIVE potentialLoop(_, _, _)
potentialLoop(ivs, k, acc) ==
    IF k > Len(ivs) THEN acc
    ELSE potentialLoop(ivs, k + 1,
                       [sum |-> FAdd(acc.sum, ivs[k].LMP),
                        minv |-> IF FLt(ivs[k].LMP, acc.minv) THEN ivs[k].LMP ELSE acc.minv,
                        maxv |-> IF FGt(ivs[k].LMP, acc.maxv) THEN ivs[k].LMP ELSE acc.maxv])

\* ArbitragePotential{}
ZeroPotential ==
    [Location |-> "", Market |-> "", StartUTC |-> ZeroTime, EndUTC |-> ZeroTime, Count |-> 0,
     MinLMP |-> Zero, MaxLMP |-> Zero, MeanLMP |-> Zero, P05LMP |-> Zero, P95LMP |-> Zero,
     SpreadP95P05 |-> Zero, OracleProfit |-> Zero]

ComputePotential(ivs) ==
    IF Len(ivs) = 0 THEN ZeroPotential
    ELSE
    Let(potentialLoop(ivs, 1, [sum |-> Zero, minv |-> PosInf, maxv |-> NegInf]), LAMBDA acc :
    Let(Tabulated(sortFloat64s([k \in 1..Len(ivs) |-> ivs[k].LMP])), LAMBDA vals :
    Let(percentileSorted(vals, R(1, 20)), LAMBDA p05 :
    Let(percentileSorted(vals, R(19, 20)), LAMBDA p95 :
        [Location |-> ivs[1].Location, Market |-> ivs[1].Market,
         StartUTC |-> ivs[1].IntervalStartUTC, EndUTC |-> ivs[Len(ivs)].IntervalEndUTC,
         Count |-> Len(ivs),
         MinLMP |-> acc.minv, MaxLMP |-> acc.maxv,
         MeanLMP |-> FDiv(acc.sum, I(Len(vals))),
         P05LMP |-> p05,
         P95LMP |-> p95,
         SpreadP95P05 |-> FSub(p95, p05),
         OracleProfit |-> oracleProfitCanonical(ivs)]))))

\* the comparison handed to sort.Slice, and its reverse
lessOracleProfitAscending(a, b) == FLt(a.OracleProfit, b.OracleProfit)

lessOracleProfit(a, b) == FGt(a.OracleProfit, b.OracleProfit)

\* sort.Slice on fewer than 13 entries: an insertion sort
RECURSIVE insertPotential(_, _)
insertPotential(data, j) ==
    IF j > 1 /\ lessOracleProfit(data[j], data[j - 1])
    THEN insertPotential([data EXCEPT ![j] = data[j - 1], ![j - 1] = data[j]], j - 1)
    ELSE data

RECURSIVE sortSliceFrom(_, _)
sortSliceFrom(data, i) ==
    IF i > Len(data) THEN data ELSE sortSliceFrom(insertPotential(data, i), i + 1)

\* RankByOracleProfit; order is the order in which range visits the keys of
\* the map, which Go leaves open
RankByOracleProfit(byLoc, order) ==
    sortSliceFrom([k \in 1..Len(order) |-> ComputePotential(byLoc[order[k]])], 2)

----------------------------------------------------------------------------
(* Ranking as a state machine *)

Locations == {"TH_NP15", "TH_SP15"}

\* rows of the series of a location: price and length in minutes; the first
\* row starts at 22:00 local of day 1 and each row starts where the one
\* before it ends
RankKinds ==
    {[lmp |-> I(-20), dur |-> 60], [lmp |-> I(10), dur |-> 60], [lmp |-> I(40), dur |-> 60],
     [lmp |-> I(10), dur |-> 30], [lmp |-> I(40), dur |-> 30]}

RECURSIVE RankStart(_, _)
RankStart(ks, k) == IF k = 1 THEN BaseStart ELSE RankStart(ks, k - 1) + ks[k - 1].dur

MkRankSeries(loc, ks) ==
    [k \in 1..Len(ks) |->
        Let(RankStart(ks, k), LAMBDA st :
            [IntervalStartLocal |-> st, IntervalEndLocal |-> st + ks[k].dur,
             IntervalStartUTC |-> st + UTCOffset, IntervalEndUTC |-> st + UTCOffset + ks[k].dur,
             LMP |-> ks[k].lmp, Location |-> loc, Market |-> "REAL_TIME_5_MIN"])]

\* series whose first row has no length
ZeroDurationSeries ==
    {<<[lmp |-> I(40), dur |-> 0]>>, <<[lmp |-> I(10), dur |-> 0], [lmp |-> I(40), dur |-> 60]>>}

RankKindSeries == UNION {[1..n -> RankKinds] : n \in 0..MaxIntervals} \cup ZeroDurationSeries

\* the map handed to RankByOracleProfit that gives location l the series of
\* rows f[l]
LocationMap(S, f) == Tabulated([l \in S |-> Tabulated(MkRankSeries(l, f[l]))])

\* the orders in which the keys of a map can be visited
KeyOrders(S) ==
    {o \in [1..Cardinality(S) -> S] : \A i, j \in 1..Cardinality(S) : o[i] = o[j] => i = j}

\* analysis.RankByOracleProfit(byLocation), for a map over any of the
\* locations, each with a series
Rank ==
    /\ pc = "start"
    /\ \E S \in SUBSET Locations : \E f \in [S -> RankKindSeries] :
        \E m \in {LocationMap(S, f)} : \E o \in KeyOrders(S) :
            /\ byLocation' = m
            /\ ranked' = RankByOracleProfit(m, o)
    /\ pc' = "ranked"
    /\ UNCHANGED <<batt, initialSOC, intervals, strat, cfg, result, err, lastCall, lastRes,
                   ncalls, callVars, apiVars, cacheVars>>

NextRank == Rank
SpecRank == Init /\ [][NextRank]_vars

----------------------------------------------------------------------------
(* internal/data/cache.go, internal/data/gridstatus.go *)

\* the TTL of the cache and the last instant of the clock, in ticks
CacheTTL == 1
MaxTime == 2

\* GetCache: the cache is there only when enabled, and never in production
cacheEnabled(e) ==
    IF e.ENABLE_GRIDSTATUS_CACHE # "true" THEN FALSE
    ELSE IF e.API_ENV = "production" THEN FALSE
    ELSE TRUE

\* what cacheOnce.Do leaves in globalCache
GetCache(e, cache) ==
    IF ~cacheEnabled(e) THEN NoCache
    ELSE IF cache.nil THEN [nil |-> FALSE, store |-> <<>>, ttl |-> CacheTTL]
    ELSE cache

\* time.Time.After with its arguments exchanged
AfterReversed(t, u) == u > t

\* time.Time.After
After(t, u) == t > u

\* the locked part of ResponseCache.Get: [found, resp]
Get(c, key, t) ==
    IF key \notin DOMAIN c.store THEN [found |-> FALSE, resp |-> ""]
    ELSE IF After(t, c.store[key].ExpiresAt) THEN [found |-> FALSE, resp |-> ""]
    ELSE [found |-> TRUE, resp |-> c.store[key].Response]

\* the locked part of ResponseCache.Set: the cache after it
Set(c, key, resp, t) ==
    [c EXCEPT !.store = (key :> [Response |-> resp, ExpiresAt |-> t + c.ttl]) @@ c.store]

\* the locked part of ResponseCache.Clear
Clear(c) == [c EXCEPT !.store = <<>>]

\* one round of the loop of ResponseCache.cleanup
cleanup(c, t) ==
    [c EXCEPT !.store = [k \in {j \in DOMAIN c.store : ~After(t, c.store[j].ExpiresAt)} |->
                            c.store[k]]]

\* GenerateCacheKey: the formatted fields; the SHA-256 of the string they
\* make is taken to be one-to-one
GenerateCacheKey(params) ==
    <<params.DatasetID, params.LocationID, params.StartTime \div MinutesPerDay,
      params.EndTime \div MinutesPerDay, params.Timezone, params.Download>>

\* GridStatusClient.validateAPIKey: the error code, "" for nil
clientValidateAPIKey(apiKey) ==
    IF apiKey = "" THEN "MISSING_API_KEY"
    ELSE IF Len(apiKey) < 10 THEN "INVALID_API_KEY_FORMAT"
    ELSE ""

\* the checks of the parameters in QueryLocation (lines 85-96)
validateParams(params) ==
    IF params.DatasetID = "" THEN "dataset_id is required"
    ELSE IF params.LocationID = "" THEN "location_id is required"
    ELSE IF params.StartTime = ZeroTime \/ params.EndTime = ZeroTime
        THEN "start_time and end_time are required"
    ELSE IF params.StartTime > params.EndTime THEN "start_time must be before end_time"
    ELSE ""

\* the error QueryLocation returns for a response status (lines 157-196)
statusError(status) ==
    IF status = 200 THEN ""
    ELSE IF status = 403 THEN "INVALID_API_KEY"
    ELSE IF status = 429 THEN "RATE_LIMIT_EXCEEDED"
    ELSE IF status = 401 THEN "UNAUTHORIZED"
    ELSE "API_ERROR"

(* Inputs of the cache and the client *)

Environments ==
    {[ENABLE_GRIDSTATUS_CACHE |-> e, API_ENV |-> a, started |-> TRUE] :
        e \in {"true", ""}, a \in {"production", "development"}}

\* API keys: none, one too short, one the upstream accepts and a well-formed
\* one it rejects
AcceptedKey == "key-accepted-01"
RejectedKey == "key-rejected-02"
APIKeys == {"", "short", AcceptedKey, RejectedKey}
UpstreamAccepts(apiKey) == apiKey = AcceptedKey

QueryParams ==
    {[DatasetID |-> "caiso_lmp_real_time_5_min", LocationID |-> l,
      StartTime |-> MinutesPerDay, EndTime |-> 2 * MinutesPerDay, Timezone |-> "market",
      Download |-> FALSE] : l \in Locations}

CacheKeys == {GenerateCacheKey(p) : p \in QueryParams}

\* the body the upstream sends for a query it accepts
UpstreamBody(params) == "lmp of " \o params.LocationID
Responses == {UpstreamBody(p) : p \in QueryParams}

\* the statuses the upstream can answer a request with
UpstreamStatuses(apiKey) == IF UpstreamAccepts(apiKey) THEN {200, 429} ELSE {401, 403}

(* The cache and the client as a state machine *)

\* the process starts with its environment
StartProcess ==
    /\ pc = "start"
    /\ \E e \in Environments : env' = e
    /\ pc' = "serving"
    /\ UNCHANGED <<batt, initialSOC, intervals, strat, cfg, result, err, lastCall, lastRes,
                   ncalls, callVars, apiVars, rankVars, globalCache, mu, now, goroutines,
                   sweeper, completed>>

otherVars ==
    <<pc, batt, initialSOC, intervals, strat, cfg, result, err, lastCall, lastRes, ncalls,
      callVars, apiVars, rankVars, env>>

\* goroutine g is free to make a call
Free(g) == pc = "serving" /\ goroutines[g].pc \in {"idle", "done"}

\* cache := GetCache(), as it leaves globalCache and the cleanup goroutine
CallGetCache ==
    /\ globalCache' = IF cacheEnabled(env) THEN GetCache(env, globalCache) ELSE globalCache
    /\ sweeper' = IF cacheEnabled(env) /\ globalCache.nil THEN "wait" ELSE sweeper

\* a goroutine calls GetCache().Get(key)
GetCall ==
    /\ \E g \in Goroutines, key \in CacheKeys :
        /\ Free(g)
        /\ goroutines' = [goroutines EXCEPT ![g] =
               [IdleGoroutine EXCEPT !.pc = IF cacheEnabled(env) THEN "get_rlock" ELSE "done",
                                     !.key = key]]
    /\ CallGetCache
    /\ UNCHANGED <<otherVars, mu, now, completed>>

\* a goroutine calls GetCache().Set(key, response)
SetCall ==
    /\ \E g \in Goroutines, key \in CacheKeys, resp \in Responses :
        /\ Free(g)
        /\ goroutines' = [goroutines EXCEPT ![g] =
               [IdleGoroutine EXCEPT !.pc = IF cacheEnabled(env) THEN "set_lock" ELSE "done",
                                     !.key = key, !.val = resp]]
    /\ CallGetCache
    /\ UNCHANGED <<otherVars, mu, now, completed>>

\* a goroutine calls GetCache().Clear()
ClearCall ==
    /\ \E g \in Goroutines :
        /\ Free(g)
        /\ goroutines' = [goroutines EXCEPT ![g] =
               [IdleGoroutine EXCEPT !.pc = IF cacheEnabled(env) THEN "clear_lock" ELSE "done"]]
    /\ CallGetCache
    /\ UNCHANGED <<otherVars, mu, now, completed>>

\* Get: c.mu.RLock()
GetRLock ==
    /\ \E g \in Goroutines :
        /\ goroutines[g].pc = "get_rlock"
        /\ mu.writer = ""
        /\ mu' = [mu EXCEPT !.readers = @ \cup {g}]
        /\ goroutines' = [goroutines EXCEPT ![g].pc = "get_body"]
    /\ UNCHANGED <<otherVars, globalCache, now, sweeper, completed>>

\* Get: the lookup and the expiry check (lines 89-99)
GetBody ==
    /\ \E g \in Goroutines :
        /\ goroutines[g].pc = "get_body"
        /\ goroutines' = [goroutines EXCEPT ![g].pc = "get_runlock", ![g].at = now,
                                            ![g].out = Get(globalCache, goroutines[g].key, now)]
    /\ UNCHANGED <<otherVars, globalCache, mu, now, sweeper, completed>>

\* Get: the deferred c.mu.RUnlock() and the return; in QueryLocation a hit is
\* returned (lines 73-83) and a miss goes on to the request
GetRUnlock ==
    /\ \E g \in Goroutines :
        /\ goroutines[g].pc = "get_runlock"
        /\ mu' = [mu EXCEPT !.readers = @ \ {g}]
        /\ goroutines' = [goroutines EXCEPT ![g] =
               Let(goroutines[g], LAMBDA q :
                   IF q.fn # "QueryLocation" THEN [q EXCEPT !.pc = "done"]
                   ELSE IF q.out.found
                       THEN [q EXCEPT !.pc = "done", !.ret = [resp |-> q.out.resp, err |-> ""]]
                   ELSE [q EXCEPT !.pc = "request"])]
    /\ UNCHANGED <<otherVars, globalCache, now, sweeper, completed>>

\* Set: c.mu.Lock()
SetLock ==
    /\ \E g \in Goroutines :
        /\ goroutines[g].pc = "set_lock"
        /\ mu = Unlocked
        /\ mu' = [mu EXCEPT !.writer = g]
        /\ goroutines' = [goroutines EXCEPT ![g].pc = "set_body"]
    /\ UNCHANGED <<otherVars, globalCache, now, sweeper, completed>>

\* Set: the assignment to the store (lines 111-114)
SetBody ==
    /\ \E g \in Goroutines :
        /\ goroutines[g].pc = "set_body"
        /\ globalCache' = Set(globalCache, goroutines[g].key, goroutines[g].val, now)
        /\ goroutines' = [goroutines EXCEPT ![g].pc = "set_unlock", ![g].at = now]
    /\ UNCHANGED <<otherVars, mu, now, sweeper, completed>>

\* Set: the deferred c.mu.Unlock() and the return; QueryLocation then returns
\* the response (line 222)
SetUnlock ==
    /\ \E g \in Goroutines :
        /\ goroutines[g].pc = "set_unlock"
        /\ mu' = [mu EXCEPT !.writer = ""]
        /\ completed' = (goroutines[g].key :>
                            [Response |-> goroutines[g].val, At |-> goroutines[g].at])
                        @@ completed
        /\ goroutines' = [goroutines EXCEPT ![g] =
               Let(goroutines[g], LAMBDA q :
                   IF q.fn # "QueryLocation" THEN [q EXCEPT !.pc = "done"]
                   ELSE [q EXCEPT !.pc = "done", !.ret = [resp |-> q.val, err |-> ""]])]
    /\ UNCHANGED <<otherVars, globalCache, now, sweeper>>

\* Clear: c.mu.Lock()
ClearLock ==
    /\ \E g \in Goroutines :
        /\ goroutines[g].pc = "clear_lock"
        /\ mu = Unlocked
        /\ mu' = [mu EXCEPT !.writer = g]
        /\ goroutines' = [goroutines EXCEPT ![g].pc = "clear_body"]
    /\ UNCHANGED <<otherVars, globalCache, now, sweeper, completed>>

\* Clear: the store is replaced by an empty one (line 126)
ClearBody ==
    /\ \E g \in Goroutines :
        /\ goroutines[g].pc = "clear_body"
        /\ goroutines' = [goroutines EXCEPT ![g].pc = "clear_unlock"]
    /\ globalCache' = Clear(globalCache)
    /\ completed' = <<>>
    /\ UNCHANGED <<otherVars, mu, now, sweeper>>

\* Clear: the deferred c.mu.Unlock() and the return
ClearUnlock ==
    /\ \E g \in Goroutines :
        /\ goroutines[g].pc = "clear_unlock"
        /\ mu' = [mu EXCEPT !.writer = ""]
        /\ goroutines' = [goroutines EXCEPT ![g].pc = "done"]
    /\ UNCHANGED <<otherVars, globalCache, now, sweeper, completed>>

\* cleanup: the ticker fires and the goroutine takes the lock (lines 134-135)
CleanupLock ==
    /\ sweeper = "wait"
    /\ mu = Unlocked
    /\ mu' = [mu EXCEPT !.writer = "cleanup"]
    /\ sweeper' = "sweep"
    /\ UNCHANGED <<otherVars, globalCache, now, goroutines, completed>>

\* cleanup: the expired entries are deleted (lines 136-141)
CleanupSweep ==
    /\ sweeper = "sweep"
    /\ globalCache' = cleanup(globalCache, now)
    /\ completed' = [k \in DOMAIN completed \cap DOMAIN cleanup(globalCache, now).store |->
                        completed[k]]
    /\ sweeper' = "unlock"
    /\ UNCHANGED <<otherVars, mu, now, goroutines>>

\* cleanup: c.mu.Unlock() (line 142)
CleanupUnlock ==
    /\ sweeper = "unlock"
    /\ mu' = [mu EXCEPT !.writer = ""]
    /\ sweeper' = "wait"
    /\ UNCHANGED <<otherVars, globalCache, now, goroutines, completed>>

\* time passes
Tick ==
    /\ pc = "serving"
    /\ now < MaxTime
    /\ now' = now + 1
    /\ UNCHANGED <<otherVars, globalCache, mu, goroutines, sweeper, completed>>

\* a goroutine calls QueryLocation(params) on a client with some API key: the
\* key is validated and the cache, if there is one, is asked (lines 63-73)
QueryLocationCall ==
    /\ \E g \in Goroutines, apiKey \in APIKeys, params \in QueryParams :
        /\ Free(g)
        /\ goroutines' = [goroutines EXCEPT ![g] =
               Let([IdleGoroutine EXCEPT !.fn = "QueryLocation", !.apiKey = apiKey,
                                         !.params = params], LAMBDA q :
                   IF clientValidateAPIKey(apiKey) # ""
                   THEN [q EXCEPT !.pc = "done",
                                  !.ret = [resp |-> "", err |-> clientValidateAPIKey(apiKey)]]
                   ELSE IF cacheEnabled(env)
                       THEN [q EXCEPT !.pc = "get_rlock", !.key = GenerateCacheKey(params)]
                   ELSE [q EXCEPT !.pc = "request"])]
        /\ IF clientValidateAPIKey(apiKey) = "" THEN CallGetCache
           ELSE UNCHANGED <<globalCache, sweeper>>
    /\ UNCHANGED <<otherVars, mu, now, completed>>

\* QueryLocation from the checks of the parameters to the response of the
\* upstream (lines 85-214): an error, or a body to cache and return
Request ==
    /\ \E g \in Goroutines : \E status \in UpstreamStatuses(goroutines[g].apiKey) :
        /\ goroutines[g].pc = "request"
        /\ goroutines' = [goroutines EXCEPT ![g] =
               Let(goroutines[g], LAMBDA q :
                   IF validateParams(q.params) # ""
                   THEN [q EXCEPT !.pc = "done",
                                  !.ret = [resp |-> "", err |-> validateParams(q.params)]]
                   ELSE IF statusError(status) # ""
                       THEN [q EXCEPT !.pc = "done",
                                      !.ret = [resp |-> "", err |-> statusError(status)]]
                   ELSE IF cacheEnabled(env)
                       THEN [q EXCEPT !.pc = "set_lock", !.key = GenerateCacheKey(q.params),
                                      !.val = UpstreamBody(q.params)]
                   ELSE [q EXCEPT !.pc = "done",
                                  !.ret = [resp |-> UpstreamBody(q.params), err |-> ""]])]
    /\ UNCHANGED <<otherVars, globalCache, mu, now, sweeper, completed>>

\* direct use of the cache by concurrent goroutines
NextCache ==
    \/ StartProcess \/ GetCall \/ SetCall \/ ClearCall
    \/ GetRLock \/ GetBody \/ GetRUnlock \/ SetLock \/ SetBody \/ SetUnlock
    \/ ClearLock \/ ClearBody \/ ClearUnlock
    \/ CleanupLock \/ CleanupSweep \/ CleanupUnlock \/ Tick
SpecCache == Init /\ [][NextCache]_vars

\* concurrent QueryLocation calls
NextQuery ==
    \/ StartProcess \/ QueryLocationCall \/ Request
    \/ GetRLock \/ GetBody \/ GetRUnlock \/ SetLock \/ SetBody \/ SetUnlock
    \/ CleanupLock \/ CleanupSweep \/ CleanupUnlock \/ Tick
SpecQuery == Init /\ [][NextQuery]_vars

----------------------------------------------------------------------------
(* Properties *)

\* a direct ApplyDispatch call has returned a result
Applied == ncalls > 0 /\ err = ""

\* the rows of the ledger Engine.Run returned
Rows == {result.Ledger[i] : i \in 1..Len(result.Ledger)}

\* all intervals start on the same local calendar day
SingleDay(ivs) ==
    \A i \in 1..Len(ivs) :
        DayOf(ivs[i].IntervalStartLocal) = DayOf(ivs[1].IntervalStartLocal)

NonConstant(ivs) == \E i, j \in 1..Len(ivs) : ivs[i].LMP # ivs[j].LMP

EnergyBalance ==
    Applied =>
        /\ FLt(lastRes.PowerMW, Zero) =>
              FMul(FSub(lastRes.SOCEnd, lastRes.SOCStart), batt.Params.EnergyCapacityMWh)
                  = FMul(lastRes.EnergyFromGridMWh, batt.Params.ChargeEfficiency)
        /\ FGt(lastRes.PowerMW, Zero) =>
              FMul(FSub(lastRes.SOCStart, lastRes.SOCEnd), batt.Params.EnergyCapacityMWh)
                  = FDiv(lastRes.EnergyToGridMWh, batt.Params.DischargeEfficiency)

\* a charge cut short by the SOC headroom: less power than the power limit
\* allows was realized and the battery ended full
EnergyBalanceWitness ==
    /\ Applied
    /\ FLt(lastRes.PowerMW, Zero)
    /\ FLt(lastCall.d, lastRes.PowerMW)
    /\ FLt(FNeg(batt.Params.PowerCapacityMW), lastRes.PowerMW)
    /\ lastRes.SOCEnd = batt.Params.MaxSOC
    /\ batt.Params.ChargeEfficiency # One

\* C6: the realized power never exceeds the power capacity in magnitude; a
\* request beyond the capacity, made when the SOC headroom allows the capacity
\* for the whole interval, is realized as exactly the capacity with the sign of
\* the request.
PowerClip ==
    Applied =>
        LET p == batt.Params
            capMWh == FMul(p.PowerCapacityMW, lastCall.durationHours)
            chargeRoom == FDiv(FMul(FSub(p.MaxSOC, lastRes.SOCStart), p.EnergyCapacityMWh),
                               p.ChargeEfficiency)
            dischargeRoom == FMul(FMul(FSub(lastRes.SOCStart, p.MinSOC), p.EnergyCapacityMWh),
                                  p.DischargeEfficiency)
        IN  /\ FLe(FAbs(lastRes.PowerMW), p.PowerCapacityMW)
            /\ (FLt(lastCall.d, FNeg(p.PowerCapacityMW)) /\ FGe(chargeRoom, capMWh))
                   => lastRes.PowerMW = FNeg(p.PowerCapacityMW)
            /\ (FGt(lastCall.d, p.PowerCapacityMW) /\ FGe(dischargeRoom, capMWh))
                   => lastRes.PowerMW = p.PowerCapacityMW

\* a charge request of ten times the capacity was realized at the capacity
PowerClipWitness ==
    /\ Applied
    /\ IsFinite(lastCall.d)
    /\ FLt(lastCall.d, FNeg(batt.Params.PowerCapacityMW))
    /\ lastRes.PowerMW = FNeg(batt.Params.PowerCapacityMW)

\* the running sum of PNL over rows 1..i of a ledger
RECURSIVE SumPNL(_, _)
SumPNL(ledger, i) == IF i = 0 THEN Zero ELSE FAdd(SumPNL(ledger, i - 1), ledger[i].PNL)

\* C5: in the ledger Engine.Run returns, CumPNL of every row is the sum of PNL
\* over the rows up to it, and TotalPNL is CumPNL of the last row.
CumPNLIsPrefixSum ==
    pc = "done" =>
        /\ \A i \in 1..Len(result.Ledger) :
               result.Ledger[i].CumPNL = SumPNL(result.Ledger, i)
        /\ result.TotalPNL = result.Ledger[Len(result.Ledger)].CumPNL

\* a ledger of two rows or more whose first two rows both have a nonzero PNL
CumPNLIsPrefixSumWitness ==
    /\ pc = "done"
    /\ Len(result.Ledger) >= 2
    /\ result.Ledger[1].PNL # Zero
    /\ result.Ledger[2].PNL # Zero
    /\ result.TotalPNL # result.Ledger[2].PNL

\* the request of row r is a charge at MaxSOC or a discharge at MinSOC
AtLimit(r) ==
    \/ FLt(r.RequestedPowerMW, Zero) /\ r.SOCStart = batt.Params.MaxSOC
    \/ FGt(r.RequestedPowerMW, Zero) /\ r.SOCStart = batt.Params.MinSOC

\* C7: a charge requested at MaxSOC and a discharge requested at MinSOC move no
\* energy: both energies, the realized power and the PNL are zero, the SOC is
\* unchanged and the ledger row is tagged IDLE.
ZeroEnergyAtLimit ==
    pc = "done" =>
        \A r \in Rows :
            AtLimit(r) =>
                /\ r.EnergyFromGridMWh = Zero
                /\ r.EnergyToGridMWh = Zero
                /\ r.PowerMW = Zero
                /\ r.PNL = Zero
                /\ r.SOCEnd = r.SOCStart
                /\ r.Action = "IDLE"

\* a ledger with a charge requested at MaxSOC, below 1, tagged IDLE
ZeroEnergyAtLimitWitness ==
    /\ pc = "done"
    /\ \E r \in Rows :
           /\ FLt(r.RequestedPowerMW, Zero)
           /\ r.SOCStart = batt.Params.MaxSOC
           /\ batt.Params.MaxSOC # One
           /\ r.Action = "IDLE"

\* C8: in every ledger row at most one of EnergyFromGridMWh and EnergyToGridMWh
\* is nonzero, neither is negative, and ThroughputMWh is their sum.
OneDirection ==
    pc = "done" =>
        \A r \in Rows :
            /\ r.EnergyFromGridMWh = Zero \/ r.EnergyToGridMWh = Zero
            /\ FGe(r.EnergyFromGridMWh, Zero)
            /\ FGe(r.EnergyToGridMWh, Zero)
            /\ r.ThroughputMWh = FAdd(r.EnergyFromGridMWh, r.EnergyToGridMWh)

\* a ledger with a charging row and a discharging row, the charge at an
\* efficiency below 1
OneDirectionWitness ==
    /\ pc = "done"
    /\ batt.Params.ChargeEfficiency # One
    /\ \E r \in Rows : FGt(r.EnergyFromGridMWh, Zero)
    /\ \E r \in Rows : FGt(r.EnergyToGridMWh, Zero)

\* C10: Engine.Run, when it returns, returns an error and no Result if the
\* interval sequence is empty or some interval has a duration <= 0, also when
\* earlier intervals were already simulated.
FailFast ==
    (/\ pc \in {"done", "error"}
     /\ \/ Len(intervals) = 0
        \/ \E i \in 1..Len(intervals) : Duration(intervals[i]) <= 0)
    => pc = "error" /\ result.nil /\ err # ""

\* Engine.Run failed on the second interval after the first moved the battery
FailFastWitness ==
    /\ pc = "error"
    /\ Len(intervals) >= 2
    /\ Duration(intervals[1]) > 0
    /\ Duration(intervals[2]) <= 0
    /\ batt.SOC # initialSOC
    /\ result.nil

\* the optimum the DP computed for the oracle configuration oc: the largest
\* entry of the final dp array
DPOptimum(oc) ==
    LET o == optimizeDP(intervals, batt.Params, initialSOC,
                        IF oc.SocSteps <= 0 THEN DefaultSocSteps ELSE oc.SocSteps,
                        IF oc.PowerSteps <= 0 THEN DefaultPowerSteps ELSE oc.PowerSteps)
    IN  MaxOf({o.dp[s] : s \in DOMAIN o.dp} \ {NegInf})

\* C2: on a single-day series, the total PnL of replaying the oracle's plan
\* through Engine.Run is the optimum the DP computed.
OracleReplayIsDPOptimum ==
    (pc = "done" /\ cfg.name = "oracle" /\ SingleDay(intervals))
        => result.TotalPNL = DPOptimum(cfg.params)

\* the total PnL of Engine.Run with the oracle of configuration oc on the
\* intervals, from the same battery and starting state of charge
OracleTotal(oc) ==
    LET o == NewOracleStrategy(intervals, batt.Params, initialSOC, oc)
        r == EngineRun(intervals, [nil |-> FALSE, Params |-> batt.Params, SOC |-> initialSOC],
                       o.s)
    IN  r.result.TotalPNL

\* C3: on a non-constant single-day series the oracle run's total PnL is at
\* least the total PnL of the run of any schedule.
OracleBeatsSchedule ==
    (pc = "done" /\ cfg.name = "schedule" /\ SingleDay(intervals) /\ NonConstant(intervals))
        => \A oc \in OracleConfigs : FGe(OracleTotal(oc), result.TotalPNL)

\* C9: Engine.Run produces no ledger row for an interval for which Decide
\* returned NaN or an infinite power: every row of a returned ledger has a
\* finite requested power.
NonFiniteRequestFails ==
    pc = "done" => \A r \in Rows : IsFinite(r.RequestedPowerMW)

----------------------------------------------------------------------------
(* Schedule strategies with malformed times *)

\* a time string of the parameters that parseHHMM rejects; a blank end is not
\* parsed
MalformedTime(sp) ==
    \/ ~parseHHMM(sp.ChargeStart).ok
    \/ ~parseHHMM(sp.DischargeStart).ok
    \/ TrimSpace(sp.ChargeEnd) # <<>> /\ ~parseHHMM(sp.ChargeEnd).ok
    \/ TrimSpace(sp.DischargeEnd) # <<>> /\ ~parseHHMM(sp.DischargeEnd).ok

\* C11: a run of a schedule strategy with a malformed HH:MM time (wrong shape,
\* hour outside 0..23 or minute outside 0..59) over a non-empty series ends
\* with an error returned to the caller, no result, and the battery untouched.
\* Violated: the run ends in a panic raised by the first Decide, not in a
\* returned error.
MalformedTimeIsReturnedError ==
    (/\ pc \in {"done", "error", "panic"}
     /\ cfg.name = "schedule"
     /\ MalformedTime(cfg.params)
     /\ Len(intervals) > 0)
    => (pc = "error" /\ err # "" /\ result.nil /\ batt.SOC = initialSOC)

----------------------------------------------------------------------------
(* The schedule strategy's windows and decisions *)

\* the minutes of the day of the half-open window from start to end
WindowSet(start, end) ==
    IF start < end THEN start..(end - 1)
    ELSE IF start > end THEN (start..(MinutesPerDay - 1)) \cup (0..(end - 1))
    ELSE {}

\* C12: inWindow(t, start, end) is false for every t when start = end, is
\* start <= t < end when start < end, and is t >= start or t < end when
\* start > end; the window 22:00-02:00 contains 22:30 and 01:30 but not 02:00
\* or 21:59.
InWindowSemantics ==
    /\ lastWindow.in <=> lastWindow.tMins \in WindowSet(lastWindow.start, lastWindow.end)
    /\ lastWindow.start = lastWindow.end => ~lastWindow.in
    /\ (lastWindow.start = 1320 /\ lastWindow.end = 120)
         => (lastWindow.in <=> lastWindow.tMins \in {1320, 1350, 1439, 0, 1, 90})

\* a call for 01:30 with the window from 22:00 to 02:00
InWindowSemanticsWitness ==
    pc = "window" /\ lastWindow = [tMins |-> 90, start |-> 1320, end |-> 120, in |-> TRUE]

\* the minute of the day of the local start of the interval of ctx
StartMinute(c) == c.Interval.IntervalStartLocal % MinutesPerDay

\* the window ends of parameters with well-formed times: a blank end is the
\* discharge start
ChargeWindow(sp) ==
    WindowSet(parseHHMM(sp.ChargeStart).mins,
              IF TrimSpace(sp.ChargeEnd) = <<>> THEN parseHHMM(sp.DischargeStart).mins
              ELSE parseHHMM(sp.ChargeEnd).mins)
DischargeWindow(sp) ==
    WindowSet(parseHHMM(sp.DischargeStart).mins,
              IF TrimSpace(sp.DischargeEnd) = <<>> THEN parseHHMM(sp.DischargeStart).mins
              ELSE parseHHMM(sp.DischargeEnd).mins)

\* C13: Decide returns -|charge_power_mw| when the interval's local start
\* minute is in the charge window, otherwise +|discharge_power_mw| when it is
\* in the discharge window, otherwise 0, whatever the index, the battery's SOC
\* and the calls made before.
DecideByStartMinute ==
    (pc = "strategy" /\ ~lastDecision.nil) =>
        lastDecision.d =
            IF StartMinute(lastCtx) \in ChargeWindow(cfg.params)
                THEN FNeg(FAbs(cfg.params.ChargePowerMW))
            ELSE IF StartMinute(lastCtx) \in DischargeWindow(cfg.params)
                THEN FAbs(cfg.params.DischargePowerMW)
            ELSE Zero

\* a third call, with index 7 on the second day at 01:30, inside both windows
\* of a strategy whose windows both run from 22:00 to 02:00: charge is returned
DecideByStartMinuteWitness ==
    /\ pc = "strategy"
    /\ ncalls = 3
    /\ ~lastDecision.nil
    /\ lastCtx.Index = 7
    /\ lastCtx.Interval.IntervalStartLocal = 2 * MinutesPerDay + 90
    /\ StartMinute(lastCtx) \in ChargeWindow(cfg.params) \cap DischargeWindow(cfg.params)
    /\ lastDecision.d = I(-3)

----------------------------------------------------------------------------
(* Defaults of the schedule strategy's window ends *)

\* the key is absent from the parameters, or holds no string, or a blank one
Unspecified(m, key) ==
    key \notin DOMAIN m \/ m[key].kind # "string" \/ TrimSpace(m[key].s) = <<>>

\* the end the strategy uses for a window whose end field is e
EffectiveEnd(e, dischargeStart) == IF TrimSpace(e) = <<>> THEN dischargeStart ELSE e

\* C14: wherever a schedule strategy is built from parameters without a
\* discharge_end, its discharge window ends at discharge_start, so the window
\* is empty and no interval of the run requests a discharge; likewise a
\* charge_end left out is the discharge start.  Violated by the HTTP handler,
\* whose discharge_end defaults to 23:59.
DischargeEndDefaultsToStart ==
    (/\ pc = "responded"
     /\ request.kind \in {"backtest", "cli"}
     /\ strat.name = "schedule")
    => /\ Unspecified(request.Config.Strategy.Params, "charge_end")
            => EffectiveEnd(strat.Params.ChargeEnd, strat.Params.DischargeStart)
                   = strat.Params.DischargeStart
       /\ Unspecified(request.Config.Strategy.Params, "discharge_end")
            => /\ EffectiveEnd(strat.Params.DischargeEnd, strat.Params.DischargeStart)
                       = strat.Params.DischargeStart
               /\ ~result.nil =>
                      \A k \in 1..Len(result.Ledger) :
                          ~FGt(result.Ledger[k].RequestedPowerMW, Zero)


----------------------------------------------------------------------------
(* The oracle's plan *)

\* C15: a plan built by NewOracleStrategy from a non-empty series of intervals
\* of positive length has one Dispatch per interval, whatever the days of the
\* series, and OracleStrategy.Decide returns plan[ctx.Index], and idle for an
\* index outside the plan
PlanIndexedByInterval ==
    /\ pc = "failed" => \E k \in 1..Len(intervals) :
                            intervals[k].IntervalEndLocal <= intervals[k].IntervalStartLocal
    /\ pc \in {"oracle", "decided"} => Len(strat.plan) = Len(intervals)
    /\ pc = "decided" =>
          /\ ~lastDecision.panic
          /\ lastDecision.d = IF lastCtx.Index >= 0 /\ lastCtx.Index < Len(intervals)
                              THEN strat.plan[lastCtx.Index + 1]
                              ELSE Zero

\* a day of one interval before a day of two, and a Decide on the first
\* interval of the second day that is not idle and differs from its neighbour
PlanIndexedByIntervalWitness ==
    /\ pc = "decided"
    /\ Len(intervals) = 3
    /\ DayOf(intervals[1].IntervalStartLocal) # DayOf(intervals[2].IntervalStartLocal)
    /\ DayOf(intervals[2].IntervalStartLocal) = DayOf(intervals[3].IntervalStartLocal)
    /\ lastCtx.Index = 1
    /\ lastDecision.d # Zero
    /\ strat.plan[2] # strat.plan[3]


\* the local calendar days of a series, and the intervals and the plan entries
\* of one day, in input order
DaysOf(ivs) == {DayOf(ivs[k].IntervalStartLocal) : k \in 1..Len(ivs)}

IntervalsOfDay(ivs, day) ==
    SelectSeq(ivs, LAMBDA iv : DayOf(iv.IntervalStartLocal) = day)

RECURSIVE PlanOfDay(_, _, _, _)
PlanOfDay(plan, ivs, day, k) ==
    IF k > Len(ivs) THEN <<>>
    ELSE IF DayOf(ivs[k].IntervalStartLocal) = day
        THEN <<plan[k]>> \o PlanOfDay(plan, ivs, day, k + 1)
    ELSE PlanOfDay(plan, ivs, day, k + 1)

\* C16: the plan entries of the intervals of one local calendar day are the
\* plan of the oracle built from that day's intervals alone, with the same
\* battery, initial SOC and step settings
OracleDaysIndependent ==
    pc \in {"oracle", "decided"} =>
        \A day \in DaysOf(intervals) :
            Let(NewOracleStrategy(IntervalsOfDay(intervals, day), batt.Params, initialSOC,
                                  cfg.params),
                LAMBDA alone :
                    /\ alone.err = ""
                    /\ PlanOfDay(strat.plan, intervals, day, 1) = alone.s.plan)

\* two days, the battery discharging on the first interval of each
OracleDaysIndependentWitness ==
    /\ pc = "oracle"
    /\ Len(intervals) = 3
    /\ DayOf(intervals[1].IntervalStartLocal) = DayOf(intervals[2].IntervalStartLocal)
    /\ DayOf(intervals[2].IntervalStartLocal) # DayOf(intervals[3].IntervalStartLocal)
    /\ FGt(strat.plan[1], Zero)
    /\ FGt(strat.plan[3], Zero)


----------------------------------------------------------------------------
(* Ranking *)

\* C17: RankByOracleProfit returns one entry per location of the map, and
\* OracleProfit does not increase from one entry to the next
RankedDescending ==
    pc = "ranked" =>
        /\ Len(ranked) = Cardinality(DOMAIN byLocation)
        /\ \A l \in DOMAIN byLocation :
               \E k \in 1..Len(ranked) : ranked[k] = ComputePotential(byLocation[l])
        /\ \A k \in 1..(Len(ranked) - 1) :
               FGe(ranked[k].OracleProfit, ranked[k + 1].OracleProfit)

\* two locations of different profit
RankedDescendingWitness ==
    /\ pc = "ranked"
    /\ Len(ranked) = 2
    /\ FGt(ranked[1].OracleProfit, ranked[2].OracleProfit)
    /\ ranked[1].Location # ranked[2].Location

\* series a is series b with c added to every price, the times being the same
OffsetBy(a, b, c) ==
    /\ Len(a) = Len(b)
    /\ \A k \in 1..Len(a) :
        /\ a[k].IntervalStartUTC = b[k].IntervalStartUTC
        /\ a[k].IntervalEndUTC = b[k].IntervalEndUTC
        /\ a[k].LMP = FAdd(b[k].LMP, c)

PriceOffsets == {I(30), I(-30), I(60)}

\* C18: two locations whose series differ by a constant price offset have the
\* same oracle_profit and the same spread_p95_p05, and a location whose price
\* is constant has oracle_profit 0
RankOffsetInvariant ==
    pc = "ranked" =>
        /\ \A la, lb \in DOMAIN byLocation : \A c \in PriceOffsets :
            (Len(byLocation[la]) > 0 /\ OffsetBy(byLocation[la], byLocation[lb], c)) =>
                /\ ComputePotential(byLocation[la]).OracleProfit
                       = ComputePotential(byLocation[lb]).OracleProfit
                /\ ComputePotential(byLocation[la]).SpreadP95P05
                       = ComputePotential(byLocation[lb]).SpreadP95P05
        /\ \A l \in DOMAIN byLocation :
            (/\ Len(byLocation[l]) > 0
             /\ \A k \in 1..Len(byLocation[l]) : byLocation[l][k].LMP = byLocation[l][1].LMP)
                => ComputePotential(byLocation[l]).OracleProfit = Zero


----------------------------------------------------------------------------
(* The summary's windows *)

\* the rows of a ledger that move energy in the given direction on a day
MovingRows(ledger, field, day) ==
    {k \in 1..Len(ledger) :
        FGt(ledger[k][field], Zero) /\ DayOf(ledger[k].IntervalStartLocal) = day}

MovingDays(ledger, field) ==
    {DayOf(ledger[k].IntervalStartLocal) : k \in {j \in 1..Len(ledger) : FGt(ledger[j][field], Zero)}}

\* the sum over the rows K of the energy, or of price times energy
RECURSIVE SumRows(_, _, _, _)
SumRows(ledger, field, K, priced) ==
    IF K = {} THEN Zero
    ELSE Let(CHOOSE k \in K : \A j \in K : k <= j, LAMBDA k :
             FAdd(IF priced THEN FMul(ledger[k].LMP, ledger[k][field]) ELSE ledger[k][field],
                  SumRows(ledger, field, K \ {k}, priced)))

\* the windows ws are those of the ledger for the rows moving energy in field,
\* avg naming the field of the average
WindowsOf(ws, avg, ledger, field) ==
    /\ Len(ws) = Cardinality(MovingDays(ledger, field))
    /\ \A k \in 1..(Len(ws) - 1) : DayOf(ws[k].Start) < DayOf(ws[k + 1].Start)
    /\ \A k \in 1..Len(ws) :
        Let(MovingRows(ledger, field, DayOf(ws[k].Start)), LAMBDA K :
            /\ K # {}
            /\ ws[k].Start = ledger[CHOOSE i \in K : \A j \in K : i <= j].IntervalStartLocal
            /\ ws[k].End = ledger[CHOOSE i \in K : \A j \in K : i >= j].IntervalEndLocal
            /\ ws[k].EnergyMWh = SumRows(ledger, field, K, FALSE)
            /\ ws[k][avg] = FDiv(SumRows(ledger, field, K, TRUE), ws[k].EnergyMWh))

\* C19: the summary has one charge window for each local day with a row that
\* takes energy from the grid and none for other days, in ascending day order;
\* the window runs from the start of the day's first such row to the end of
\* its last, its energy is the sum over those rows and its average cost the
\* energy-weighted mean price; and likewise for the discharge windows
WindowsPerDay ==
    (pc = "responded" /\ request.kind = "backtest" /\ response.status = 200) =>
        /\ WindowsOf(response.Summary.ChargeWindows, "AverageCostPerMWh",
                     result.Ledger, "EnergyFromGridMWh")
        /\ WindowsOf(response.Summary.DischargeWindows, "AveragePricePerMWh",
                     result.Ledger, "EnergyToGridMWh")

\* a day whose charge window spans a row that takes no energy, before a day
\* with no window of either kind or after one
WindowsPerDayWitness ==
    /\ pc = "responded"
    /\ request.kind = "backtest"
    /\ response.status = 200
    /\ Len(result.Ledger) = 3
    /\ Len(response.Summary.ChargeWindows) = 1
    /\ response.Summary.ChargeWindows[1].Start = result.Ledger[1].IntervalStartLocal
    /\ response.Summary.ChargeWindows[1].End = result.Ledger[3].IntervalEndLocal
    /\ ~FGt(result.Ledger[2].EnergyFromGridMWh, Zero)
    /\ Len(response.Summary.DischargeWindows) = 1


----------------------------------------------------------------------------
(* Failing variations of a comparison *)

\* the entries of the variations i.. that run to the end, in request order
RECURSIVE SucceedingEntries(_, _, _, _)
SucceedingEntries(base, variations, ivs, i) ==
    IF i > Len(variations) THEN <<>>
    ELSE Let(runVariation(buildConfig(mergeConfig(base, variations[i].Config)), ivs), LAMBDA o :
             (IF o.ok THEN <<[Name |-> variations[i].Name, Summary |-> buildSummary(o.result)]>>
              ELSE <<>>)
             \o SucceedingEntries(base, variations, ivs, i + 1))

\* the comparison got as far as its variations: the request was read, the key
\* accepted and the data fetched
ReachedVariations ==
    /\ pc = "responded"
    /\ request.kind = "compare"
    /\ response.code \in {"", "INTERNAL_ERROR"}

\* C20: a comparison that gets to its variations answers 200 with the entries
\* of the variations that succeed, in request order; a variation that fails is
\* left out and the others are still run
FailedVariationDropped ==
    ReachedVariations =>
        /\ response.status = 200
        /\ response.Comparison
               = SucceedingEntries(request.BaseConfig, request.Variations, intervals, 1)

----------------------------------------------------------------------------
(* The SOC a run starts from *)

\* the run of variation v of a comparison on the intervals ivs
VariationRun(base, v, ivs) == runVariation(buildConfig(mergeConfig(base, v.Config)), ivs)

----------------------------------------------------------------------------
(* Charging at a negative price *)

\* C22: when the price is negative and a charge takes energy from the grid,
\* the interval's pnl is positive, for every valid battery
NegativePriceChargePays ==
    (pc = "battery" /\ ncalls > 0 /\ err = "" /\ FLt(lastCall.lmp, Zero)
        /\ FGt(lastRes.EnergyFromGridMWh, Zero)) => FGt(lastRes.PNL, Zero)

(* The wrap-around scenario *)

ScenarioDRun ==
    /\ pc = "done" /\ cfg = [name |-> "schedule", params |-> ScenarioDSchedule]
    /\ intervals = ScenarioDIntervals /\ batt.Params = ParamsA /\ initialSOC = Zero

RowsOf(f(_)) == [k \in 1..Len(result.Ledger) |-> f(result.Ledger[k])]

\* C23: the 10 MWh / 10 MW lossless battery from SOC 0 under the wrap-around
\* schedule over the four rows 22:00..01:00 at prices 10, 10, 90, 90 charges,
\* charges, discharges, discharges, with SOC 0 -> 0.1 -> 0.2 -> 0.1 -> 0,
\* interval PnLs -10, -10, 90, 90 and a total of 160
ScenarioDExpected ==
    ScenarioDRun =>
        /\ RowsOf(LAMBDA r : r.Action) = <<"CHARGING", "CHARGING", "DISCHARGING", "DISCHARGING">>
        /\ RowsOf(LAMBDA r : r.SOCStart) = <<Zero, R(1, 10), R(2, 10), R(1, 10)>>
        /\ RowsOf(LAMBDA r : r.SOCEnd) = <<R(1, 10), R(2, 10), R(1, 10), Zero>>
        /\ RowsOf(LAMBDA r : r.PNL) = <<I(-10), I(-10), I(90), I(90)>>
        /\ result.TotalPNL = I(160)

(* simulateInterval against ApplyDispatch *)

\* the successful ApplyDispatch call the state records, and what
\* simulateInterval returns for the same state of charge and arguments
Simulated ==
    simulateInterval(lastRes.SOCStart, lastCall.d, lastCall.lmp, lastCall.durationHours,
                     batt.Params)

\* C25: for a valid battery, a state of charge in [min_soc, max_soc], any desired
\* power, price and dt > 0, simulateInterval returns the next SOC, the realized
\* power and the pnl of ApplyDispatch
SimulateIntervalIsApplyDispatch ==
    Applied =>
        /\ Simulated.nextSOC = lastRes.SOCEnd
        /\ Simulated.power = lastRes.PowerMW
        /\ Simulated.pnl = lastRes.PNL

(* Replaying the oracle's plan *)

\* the states the forward reconstruction moves to (cur after each interval,
\* lines 316-330)
RECURSIVE StatesMovedTo(_, _, _)
StatesMovedTo(choice, t, cur) ==
    IF t > Len(choice) THEN <<>>
    ELSE Let(IF choice[t][cur] < 0 THEN cur ELSE choice[t][cur], LAMBDA next :
             <<next>> \o StatesMovedTo(choice, t + 1, next))

\* the SOCs of the states the plan of one day's intervals moves to
DayStateSOCs(dayIvs, p, initSOC, oc) ==
    Let(IF oc.SocSteps <= 0 THEN DefaultSocSteps
        ELSE IF oc.SocSteps < MinSocSteps THEN MinSocSteps ELSE oc.SocSteps, LAMBDA socSteps :
    Let(socToIdx(p, socSteps, initSOC), LAMBDA initIdx :
    Let(DPForward(dayIvs, p, socSteps,
                  IF oc.PowerSteps <= 0 THEN DefaultPowerSteps ELSE oc.PowerSteps, 1,
                  Tabulated([s \in 0..socSteps |-> IF s = initIdx THEN Zero ELSE NegInf]),
                  <<>>, <<>>), LAMBDA f :
    Let(StatesMovedTo(f.choice, 1, initIdx), LAMBDA states :
        [j \in 1..Len(states) |-> idxToSoc(p, socSteps, states[j])]))))

\* the SOC of the DP state the plan moved to in interval t of the series
DPStateSOC(t) ==
    Let(DayOf(intervals[t].IntervalStartLocal), LAMBDA day :
        DayStateSOCs(IntervalsOfDay(intervals, day), batt.Params, initialSOC, cfg.params)
            [Cardinality({k \in 1..t : DayOf(intervals[k].IntervalStartLocal) = day})])

OracleReplayed == pc = "done" /\ cfg.name = "oracle"

\* C24: when the oracle's plan is replayed by Engine.Run from the same
\* initial SOC, every row's realized power is the planned power and its soc_end
\* is the SOC of the DP state the plan moved to, on one day or several
OracleReplayFollowsDP ==
    OracleReplayed =>
        \A t \in 1..Len(result.Ledger) :
            /\ result.Ledger[t].PowerMW = strat.plan[t]
            /\ result.Ledger[t].SOCEnd = DPStateSOC(t)

(* The canonical profit as an optimum *)

\* the action sequences over a series: charge one step (1), idle (0),
\* discharge one step (-1) in each interval
CanonicalActions(ivs) == [1..Len(ivs) -> {-1, 0, 1}]

RECURSIVE IndexAfter(_, _, _)
IndexAfter(a, k, init) == IF k = 0 THEN init ELSE IndexAfter(a, k - 1, init) + a[k]

\* the sequences that keep the SOC index within [0, steps] from the initial index
FeasibleActions(ivs, steps, init) ==
    {a \in CanonicalActions(ivs) :
        \A k \in 1..Len(ivs) : IndexAfter(a, k, init) >= 0 /\ IndexAfter(a, k, init) <= steps}

\* the sum of price * dt * (discharges - charges) of a sequence
RECURSIVE ActionsProfit(_, _, _, _)
ActionsProfit(ivs, a, k, dt) ==
    IF k = 0 THEN Zero
    ELSE FAdd(ActionsProfit(ivs, a, k - 1, dt), FMul(FMul(ivs[k].LMP, dt), I(-a[k])))

FeasibleProfits(ivs) ==
    Let(DurationHours(ivs[1]), LAMBDA dt :
    Let(canonicalSteps(dt), LAMBDA steps :
        {ActionsProfit(ivs, a, Len(ivs), dt) :
            a \in FeasibleActions(ivs, steps, canonicalInit(steps))}))

\* the entries of the ranking for the series ivs
EntriesOf(ivs) ==
    {k \in 1..Len(ranked) :
        IF Len(ivs) = 0 THEN ranked[k].Count = 0
        ELSE ranked[k].Count = Len(ivs) /\ ranked[k].Location = ivs[1].Location}

\* C26: the canonical profit of a series is the largest profit of a feasible
\* action sequence on its grid, hence >= 0 and >= the profit of every
\* feasible sequence; it is 0 for an empty series and for a series whose first
\* duration is not positive
CanonicalProfitIsOptimum ==
    pc = "ranked" =>
        \A l \in DOMAIN byLocation :
            /\ EntriesOf(byLocation[l]) # {}
            /\ \A k \in EntriesOf(byLocation[l]) :
                Let(byLocation[l], LAMBDA ivs :
                    IF Len(ivs) = 0 THEN ranked[k].OracleProfit = Zero
                    ELSE IF FLe(DurationHours(ivs[1]), Zero) THEN ranked[k].OracleProfit = Zero
                    ELSE \E profits \in {FeasibleProfits(ivs)} :
                             /\ ranked[k].OracleProfit \in profits
                             /\ \A v \in profits : FGe(ranked[k].OracleProfit, v)
                             /\ FGe(ranked[k].OracleProfit, Zero))

\* two half-hour rows at 10 and 40: idle, then discharge the half MWh for 20
CanonicalProfitIsOptimumWitness ==
    /\ pc = "ranked"
    /\ \E l \in DOMAIN byLocation :
        /\ Len(byLocation[l]) = 2
        /\ byLocation[l][1].LMP = I(10) /\ byLocation[l][2].LMP = I(40)
        /\ DurationHours(byLocation[l][1]) = R(1, 2)
        /\ \E k \in EntriesOf(byLocation[l]) : ranked[k].OracleProfit = I(20)
    /\ \E l \in DOMAIN byLocation : Len(byLocation[l]) = 0

(* The grid of the canonical battery *)

\* the energy (MWh) the 1 MWh battery holds in state i of a grid of steps states
StoredMWh(i, steps) == R(i, steps)

\* the energy a half-full battery holds after the first k actions of a, each
\* step moving dt MWh
StoredAfter(a, k, dt) == FAdd(R(1, 2), FMul(dt, I(IndexAfter(a, k, 0))))

\* C27: for a first duration dt > 0 the grid is a 1 MWh battery that starts
\* half full: the initial state holds 0.5 MWh, one step is dt MWh, and along
\* every feasible action sequence 0.5 + dt * (charges - discharges) stays
\* within [0, 1]
CanonicalGridIsHalfFullBattery ==
    pc = "ranked" =>
        \A l \in DOMAIN byLocation :
            Let(byLocation[l], LAMBDA ivs :
                (Len(ivs) > 0 /\ FGt(DurationHours(ivs[1]), Zero)) =>
                    Let(DurationHours(ivs[1]), LAMBDA dt :
                    Let(canonicalSteps(dt), LAMBDA steps :
                        /\ StoredMWh(canonicalInit(steps), steps) = R(1, 2)
                        /\ FSub(StoredMWh(1, steps), StoredMWh(0, steps)) = dt
                        /\ \A a \in FeasibleActions(ivs, steps, canonicalInit(steps)) :
                               \A k \in 1..Len(ivs) :
                                   /\ FGe(StoredAfter(a, k, dt), Zero)
                                   /\ FLe(StoredAfter(a, k, dt), One))))

(* The SOC along the ledger *)

\* C28: Engine.Run never resets the battery: soc_start of the first row is the
\* battery's SOC when Run was called, soc_start of every later row is soc_end
\* of the row before it, and FinalSOC is soc_end of the last row
LedgerSOCContinuous ==
    [][(pc = "built" /\ pc' = "done") =>
            Let(result'.Ledger, LAMBDA ledger :
                /\ Len(ledger) = Len(intervals)
                /\ ledger[1].SOCStart = batt.SOC
                /\ \A i \in 1..(Len(ledger) - 1) : ledger[i + 1].SOCStart = ledger[i].SOCEnd
                /\ result'.FinalSOC = ledger[Len(ledger)].SOCEnd)]_vars

\* an oracle run over two days that empties the battery on the first: the
\* first row of the second day starts empty, not at the initial SOC
LedgerSOCContinuousWitness ==
    /\ pc = "done" /\ cfg.name = "oracle" /\ intervals = ScenarioDIntervals
    /\ initialSOC = R(1, 2)
    /\ result.Ledger[1].SOCEnd = Zero
    /\ DayOf(intervals[3].IntervalStartLocal) # DayOf(intervals[2].IntervalStartLocal)
    /\ result.Ledger[3].SOCStart = Zero
    /\ result.FinalSOC = Zero

(* The cache under concurrent use *)

\* a Get whose locked part has found an entry and is about to return it
Hit(g) == goroutines[g].pc = "get_runlock" /\ goroutines[g].out.found

\* C29: under any interleaving of Get, Set, Clear and cleanup, a Get returns a
\* hit only with the response of the latest completed Set for its key, not
\* removed since by Clear or cleanup, and not expired when Get read the clock
GetReturnsLatestSet ==
    \A g \in Goroutines :
        Hit(g) =>
            /\ goroutines[g].key \in DOMAIN completed
            /\ goroutines[g].out.resp = completed[goroutines[g].key].Response
            /\ goroutines[g].at <= completed[goroutines[g].key].At + CacheTTL

\* a hit at the last instant of an entry set after the clock had moved, with
\* another response under the other key, while the other goroutine waits to Set
GetReturnsLatestSetWitness ==
    \E g \in Goroutines :
        /\ Hit(g)
        /\ completed[goroutines[g].key].At > 0
        /\ goroutines[g].at = completed[goroutines[g].key].At + CacheTTL
        /\ \E k \in DOMAIN globalCache.store :
               /\ k # goroutines[g].key
               /\ globalCache.store[k].Response # goroutines[g].out.resp
        /\ \E h \in Goroutines : goroutines[h].pc = "set_lock"

(* The API key of a cached answer *)

\* a QueryLocation call that has returned data
Answered(g) ==
    /\ goroutines[g].fn = "QueryLocation" /\ goroutines[g].pc = "done"
    /\ goroutines[g].ret.err = ""

\* C30: QueryLocation returns data to a caller only if the upstream accepts
\* the caller's own API key
AnsweredOnlyWithAcceptedKey ==
    \A g \in Goroutines : Answered(g) => UpstreamAccepts(goroutines[g].apiKey)

============================================================================
